---- MODULE Spec2Model ----
(*****************************************************************************)
(* The data-generation front end:                                            *)
(*   FileUploadZone.processFile / onDrop      (components/FileUploadZone)    *)
(*   EnterpriseUploadZone.parseFile / analyzeDataTypes / onDrop              *)
(*   EnhancedDataGenerator: parseFile / onDrop, the generation page          *)
(*   RealTimeActivityLogger, both components of the file                     *)
(*   useSystemStatus                                (hooks/useSystemStatus)  *)
(*   DataReviewEditor        (components/data and components, one each)      *)
(*   the model store atoms                                                   *)
(*                                                                           *)
(* JavaScript strings are sequences of one-character strings, so that        *)
(* split, toLowerCase, trim, includes and the date test are computed.        *)
(* A JavaScript value is a record [k, v, o]: k is the runtime kind, v the    *)
(* text of a scalar, o the entries of an object (a sequence of               *)
(* [key, val], in insertion order) or the items of an array.                 *)
(*                                                                           *)
(* A behaviour mounts one component; the state of the others stays as it     *)
(* is at the start.  An upload component picks one file; it, or a second     *)
(* fixed file, is dropped up to MaxDrops times.  A handler is cut into       *)
(* steps at its awaits, an effect runs as a step of its own after the        *)
(* render that made it due, and a callback sees the state of the render      *)
(* that made it.  The libraries (Papa Parse, SheetJS, JSON.parse,            *)
(* Date.parse) are modelled by what they return for the options the call     *)
(* sites pass.  The read of a file always succeeds.  Drops on                *)
(* EnterpriseUploadZone may overlap; on the other two components a drop      *)
(* is made when no earlier invocation of onDrop is in flight.                *)
(*****************************************************************************)
EXTENDS Integers, Sequences, FiniteSets, TLC

\* ------------------------------------------------------------- bounds

\* longest JSON array root
MaxJsonLen == 2
\* most data lines of a CSV file / data rows of a sheet
MaxRows == 2
\* most drops on the mounted component
MaxDrops == 2
\* latest reading of the clock behind new Date()
MaxClock == 1

\* ------------------------------------------------- strings and values

SeqMap(f(_), s) == [i \in 1..Len(s) |-> f(s[i])]

RECURSIVE SeqFilter(_, _)
SeqFilter(P(_), s) ==
  IF s = <<>> THEN <<>>
  ELSE IF P(Head(s)) THEN <<Head(s)>> \o SeqFilter(P, Tail(s))
       ELSE SeqFilter(P, Tail(s))

Range(s) == {s[i] : i \in 1..Len(s)}

Digits == {"0", "1", "2", "3", "4", "5", "6", "7", "8", "9"}

Whitespace == {" "}

\* String.prototype.toLowerCase, one character
LowerChar(c) ==
  CASE c = "C" -> "c" [] c = "S" -> "s" [] c = "V" -> "v" [] c = "J" -> "j"
    [] c = "O" -> "o" [] c = "N" -> "n" [] c = "X" -> "x" [] c = "L" -> "l"
    [] c = "A" -> "a" [] c = "G" -> "g" [] c = "H" -> "h" [] c = "M" -> "m"
    [] c = "P" -> "p" [] c = "R" -> "r" [] c = "W" -> "w"
    [] OTHER -> c

toLowerCase(s) == SeqMap(LowerChar, s)

\* s.split('.').pop(): the text after the last dot, the whole text when
\* there is no dot
RECURSIVE SplitPop(_)
SplitPop(s) ==
  IF \A i \in 1..Len(s) : s[i] # "." THEN s
  ELSE SplitPop(Tail(s))

\* the place of the last dot of a text, 0 when it has none
LastDot(s) ==
  IF \E i \in 1..Len(s) : s[i] = "."
  THEN CHOOSE i \in 1..Len(s) : s[i] = "." /\ \A j \in (i + 1)..Len(s) : s[j] # "."
  ELSE 0

\* the text after the last dot of a text; the whole text when it has none
TextAfterLastDot(s) == SubSeq(s, LastDot(s) + 1, Len(s))

RECURSIVE TrimStart(_)
TrimStart(s) ==
  IF s # <<>> /\ Head(s) \in Whitespace THEN TrimStart(Tail(s)) ELSE s

RECURSIVE TrimEnd(_)
TrimEnd(s) ==
  IF s # <<>> /\ s[Len(s)] \in Whitespace
  THEN TrimEnd(SubSeq(s, 1, Len(s) - 1)) ELSE s

trim(s) == TrimEnd(TrimStart(s))

includes(s, c) == \E i \in 1..Len(s) : s[i] = c

DigitVal(c) ==
  CASE c = "0" -> 0 [] c = "1" -> 1 [] c = "2" -> 2 [] c = "3" -> 3
    [] c = "4" -> 4 [] c = "5" -> 5 [] c = "6" -> 6 [] c = "7" -> 7
    [] c = "8" -> 8 [] c = "9" -> 9 [] OTHER -> 0

Num(s) == [k |-> "number", v |-> s, o |-> <<>>]
Str(s) == [k |-> "string", v |-> s, o |-> <<>>]
Bool(s) == [k |-> "boolean", v |-> <<s>>, o |-> <<>>]
Null == [k |-> "null", v |-> <<>>, o |-> <<>>]
Undefined == [k |-> "undefined", v |-> <<>>, o |-> <<>>]
Obj(entries) == [k |-> "object", v |-> <<>>, o |-> entries]
Arr(items) == [k |-> "array", v |-> <<>>, o |-> items]
Entry(key, val) == [key |-> key, val |-> val]

EmptyString == Str(<<>>)

\* the typeof operator
typeof(x) ==
  CASE x.k = "number" -> "number"
    [] x.k = "boolean" -> "boolean"
    [] x.k = "string" -> "string"
    [] x.k = "undefined" -> "undefined"
    [] OTHER -> "object"

isArray(x) == x.k = "array"

\* JavaScript truthiness, as used by x || y and filter(Boolean)
Truthy(x) ==
  CASE x.k = "number" -> x.v \notin {<<"0">>, <<"N", "a", "N">>}
    [] x.k = "boolean" -> x.v = <<"true">>
    [] x.k = "string" -> x.v # <<>>
    [] x.k \in {"null", "undefined"} -> FALSE
    [] OTHER -> TRUE

\* the decimal text of an index below 10
IndexKey(i) == <<CHOOSE c \in Digits : DigitVal(c) = i>>

\* Object.keys / Object.values / Object.entries throw a TypeError on null
\* and undefined
KeysThrows(x) == x.k \in {"null", "undefined"}

ObjectEntries(x) ==
  CASE x.k = "object" -> x.o
    [] x.k = "array" -> [i \in 1..Len(x.o) |-> Entry(IndexKey(i - 1), x.o[i])]
    [] x.k = "string" -> [i \in 1..Len(x.v) |-> Entry(IndexKey(i - 1), Str(<<x.v[i]>>))]
    [] OTHER -> <<>>

EntryKey(e) == e.key
EntryVal(e) == e.val

ObjectKeys(x) == SeqMap(EntryKey, ObjectEntries(x))

ObjectValues(x) == SeqMap(EntryVal, ObjectEntries(x))

\* obj[key] = val on an object's entries: an existing key keeps its place
SetProp(entries, key, val) ==
  IF \E i \in 1..Len(entries) : entries[i].key = key
  THEN [i \in 1..Len(entries) |->
          IF entries[i].key = key THEN Entry(key, val) ELSE entries[i]]
  ELSE Append(entries, Entry(key, val))

\* x || y
OrElse(x, y) == IF Truthy(x) THEN x ELSE y

\* ------------------------------------------------------- text pieces

sA == <<"a">>
sB == <<"b">>
sC == <<"c">>
sOne == <<"1">>
sTwo == <<"2">>
sZero == <<"0">>
sThirty == <<"3", "0">>
sX == <<"x">>
sEmail == <<"a", "@", "b", ".", "c", "o", "m">>
sDate == <<"2", "0", "2", "4", "-", "0", "1", "-", "0", "1">>
sHello == <<"h", "e", "l", "l", "o">>
sPaddedB == <<" ", "b", " ">>

\* --------------------------------------------------- JSON.parse(text)

\* A JSON text is modelled by the value it denotes, or as malformed.
\* JSON.parse throws a SyntaxError on every text that is not a JSON text.
JsonThrows(content) == content.fmt # "json" \/ ~content.wellFormed

JsonParse(content) == content.root

\* ------------------------------- Papa.parse(input, {header: true, ...})

\* A CSV text is modelled by its lines, each the list of its fields, as
\* the tokenizer delivers them with the comma as delimiter.

\* testEmptyLine with skipEmptyLines: true
IsEmptyLine(line) == Len(line) = 1 /\ line[1] = <<>>

NotEmptyLine(line) == ~IsEmptyLine(line)

RECURSIVE SumLen(_)
SumLen(lines) == IF lines = <<>> THEN 0 ELSE Len(Head(lines)) + SumLen(Tail(lines))

\* guessDelimiter: a delimiter is accepted when the average field count of
\* the previewed lines exceeds 1.99; otherwise Papa reports
\* UndetectableDelimiter and falls back to the comma
DelimiterUndetectable(lines, skipEmptyLines) ==
  LET counted == IF skipEmptyLines THEN SeqFilter(NotEmptyLine, lines) ELSE lines
  IN  ~(Len(counted) > 0 /\ 100 * SumLen(counted) > 199 * Len(counted))

IsFloat(s) == s # <<>> /\ \A i \in 1..Len(s) : s[i] \in Digits

\* parseDynamic: the typed value of a field under dynamicTyping
parseDynamic(s, dynamicTyping) ==
  IF ~dynamicTyping THEN Str(s)
  ELSE CASE s = <<"t", "r", "u", "e">> -> Bool("true")
         [] s = <<"f", "a", "l", "s", "e">> -> Bool("false")
         [] IsFloat(s) -> Num(s)
         [] s = <<>> -> Null
         [] OTHER -> Str(s)

\* processRow: the object of one data line under the header fields
RECURSIVE PapaRowFrom(_, _, _, _, _)
PapaRowFrom(fields, line, j, dynamicTyping, acc) ==
  IF j > Len(line) THEN acc
  ELSE IF j > Len(fields)
       THEN LET old == IF \E i \in 1..Len(acc) : acc[i].key = <<"__parsed_extra">>
                       THEN (CHOOSE e \in Range(acc) : e.key = <<"__parsed_extra">>).val.o
                       ELSE <<>>
            IN  PapaRowFrom(fields, line, j + 1, dynamicTyping,
                  SetProp(acc, <<"__parsed_extra">>,
                          Arr(Append(old, parseDynamic(line[j], dynamicTyping)))))
       ELSE PapaRowFrom(fields, line, j + 1, dynamicTyping,
              SetProp(acc, fields[j], parseDynamic(line[j], dynamicTyping)))

PapaRow(fields, line, dynamicTyping) ==
  Obj(PapaRowFrom(fields, line, 1, dynamicTyping, <<>>))

\* the FieldMismatch errors of the data lines, in line order
RECURSIVE PapaRowErrors(_, _)
PapaRowErrors(fields, lines) ==
  IF lines = <<>> THEN <<>>
  ELSE (IF Len(Head(lines)) > Len(fields) THEN <<"Too many fields">>
        ELSE IF Len(Head(lines)) < Len(fields) THEN <<"Too few fields">>
        ELSE <<>>) \o PapaRowErrors(fields, Tail(lines))

\* Papa.parse: [data, errors, fields]
PapaParse(lines, skipEmptyLines, dynamicTyping) ==
  LET kept == IF skipEmptyLines THEN SeqFilter(NotEmptyLine, lines) ELSE lines
      fields == IF kept = <<>> THEN <<>> ELSE Head(kept)
      body == IF kept = <<>> THEN <<>> ELSE Tail(kept)
  IN  [data |-> [i \in 1..Len(body) |-> PapaRow(fields, body[i], dynamicTyping)],
       errors |-> (IF DelimiterUndetectable(lines, skipEmptyLines)
                   THEN <<"Unable to auto-detect delimiting character">>
                   ELSE <<>>) \o PapaRowErrors(fields, body),
       fields |-> fields]

\* ------------------------------------ XLSX.read / utils.sheet_to_json

\* A workbook is modelled by the used range of its first sheet: a list of
\* rows of cells, an empty cell being Undefined.  XLSX.read throws on
\* bytes it cannot decode.
XlsxThrows(content) == content.fmt # "xlsx" \/ ~content.wellFormed

CellOrDefval(c) == IF c.k = "undefined" THEN EmptyString ELSE c

\* sheet_to_json(ws, {header: 1, defval: ''}): every row of the range, the
\* first included, as an array; blank rows are generated
SheetToArrays(grid) == [i \in 1..Len(grid) |-> SeqMap(CellOrDefval, grid[i])]

\* the text of a header cell; an empty cell is named __EMPTY
HeaderText(c) == IF c.k = "undefined" THEN <<"__EMPTY">> ELSE c.v

\* the j-th header, made unique with _1, _2, ... as sheet_to_json does
DedupHeader(cells, j) ==
  LET n == Cardinality({i \in 1..(j - 1) : HeaderText(cells[i]) = HeaderText(cells[j])})
  IN  IF n = 0 THEN HeaderText(cells[j])
      ELSE HeaderText(cells[j]) \o <<"_">> \o IndexKey(n)

RECURSIVE SheetRowFrom(_, _, _, _)
SheetRowFrom(hdr, cells, j, acc) ==
  IF j > Len(cells) THEN acc
  ELSE IF cells[j].k = "undefined" THEN SheetRowFrom(hdr, cells, j + 1, acc)
       ELSE SheetRowFrom(hdr, cells, j + 1, SetProp(acc, DedupHeader(hdr, j), cells[j]))

NotBlankObject(row) == row.o # <<>>

\* sheet_to_json(ws): the first row names the columns, empty cells are
\* skipped, blank rows are not generated
SheetToObjects(grid) ==
  IF grid = <<>> THEN <<>>
  ELSE SeqFilter(NotBlankObject,
         [i \in 1..(Len(grid) - 1) |-> Obj(SheetRowFrom(grid[1], grid[i + 1], 1, <<>>))])

\* ---------------------------------------------------------- the files

JsonContent(root) ==
  [fmt |-> "json", wellFormed |-> TRUE, root |-> root, lines |-> <<>>, grid |-> <<>>]
CsvContent(lines) ==
  [fmt |-> "csv", wellFormed |-> TRUE, root |-> Null, lines |-> lines, grid |-> <<>>]
XlsxContent(grid) ==
  [fmt |-> "xlsx", wellFormed |-> TRUE, root |-> Null, lines |-> <<>>, grid |-> grid]
Malformed(fmt) ==
  [fmt |-> fmt, wellFormed |-> FALSE, root |-> Null, lines |-> <<>>, grid |-> <<>>]

File(name, content) == [name |-> name, size |-> 1, content |-> content]

\* all sequences over S of length at most n
SeqsUpTo(S, n) == UNION {[1..m -> S] : m \in 0..n}

rowEmpty == Obj(<<>>)
rowBlank == Obj(<<Entry(sA, EmptyString), Entry(sB, Null)>>)
rowA == Obj(<<Entry(sA, Num(sOne))>>)
rowBC == Obj(<<Entry(sB, Num(sTwo)), Entry(sC, Str(sX))>>)
rowNested == Obj(<<Entry(sA, Obj(<<>>)), Entry(sB, Arr(<<>>))>>)
rowExample ==
  Obj(<<Entry(<<"age">>, Num(sThirty)), Entry(<<"active">>, Bool("true")),
        Entry(<<"email">>, Str(sEmail)), Entry(<<"joined">>, Str(sDate)),
        Entry(<<"note">>, Str(sHello))>>)

JsonRows == {rowEmpty, rowBlank, rowA, rowBC, rowNested, rowExample}

JsonScalars == {Num(sThirty), Str(sHello), Bool("true"), Null}

JsonElems == JsonRows \cup {Null, Num(sThirty)}

JsonRoots == JsonScalars \cup JsonRows \cup {Arr(items) : items \in SeqsUpTo(JsonElems, MaxJsonLen)}

CsvHeaderLines == {<<sA, sB>>, <<sA, sPaddedB>>, <<sA>>}

CsvDataLines ==
  {<<sOne, sTwo>>, <<sEmail, sDate>>, <<<<>>, <<>>>>, <<<<>>>>, <<sX>>, <<sOne, sTwo, sX>>}

\* "a,b\n1,2\n,,\n3,4"
csvExample == <<<<sA, sB>>, <<sOne, sTwo>>, <<<<>>, <<>>, <<>>>>, <<<<"3">>, <<"4">>>>>>

CsvTexts ==
  {<<>>, csvExample}
  \cup {<<h>> \o body : h \in CsvHeaderLines, body \in SeqsUpTo(CsvDataLines, MaxRows)}

SheetHeaderRows ==
  {<<Str(sA), Str(sB)>>, <<Str(sA), Str(sA)>>, <<Undefined, Str(sB)>>,
   <<Str(sA), Str(sPaddedB)>>}

SheetDataRows ==
  {<<Num(sOne), Num(sTwo)>>, <<Undefined, Undefined>>, <<Num(sZero), Bool("false")>>,
   <<EmptyString, Undefined>>, <<Undefined, Str(sX)>>}

SheetGrids ==
  {<<>>} \cup {<<h>> \o body : h \in SheetHeaderRows, body \in SeqsUpTo(SheetDataRows, MaxRows)}

nameCsv == <<"d", ".", "c", "s", "v">>
nameJson == <<"d", ".", "j", "s", "o", "n">>
nameXlsx == <<"d", ".", "x", "l", "s", "x">>

\* names the dispatch has to tell apart: upper case, two dots, no dot, a
\* trailing dot, another extension
OddNames ==
  {<<"d", ".", "C", "S", "V">>, <<"d", ".", "J", "s", "o", "n">>, <<"d", ".", "x", "l", "s">>,
   <<"d", ".", "v", "1", ".", "j", "s", "o", "n">>,
   <<"c", "s", "v">>, <<"j", "s", "o", "n">>, <<"n", "o", "t", "e", "s">>,
   <<"d", ".">>, <<"d", ".", "t", "x", "t">>, <<"d", ".", "c", "s", "v", ".", "b", "a", "k">>}

\* The content of a file is of the format its name dispatches to (a csv
\* name holds CSV text, ...), well formed or not; a name that dispatches
\* to no format holds one of the sample contents.
SampleContents ==
  {CsvContent(<<<<sA, sB>>, <<sOne, sTwo>>>>), JsonContent(Arr(<<rowA>>)),
   XlsxContent(<<<<Str(sA), Str(sB)>>, <<Num(sOne), Num(sTwo)>>>>)}

ContentOfFormat(ext) ==
  CASE ext = <<"c", "s", "v">> -> {c \in SampleContents : c.fmt = "csv"}
    [] ext = <<"j", "s", "o", "n">> -> {c \in SampleContents : c.fmt = "json"}
    [] ext \in {<<"x", "l", "s">>, <<"x", "l", "s", "x">>} ->
         {c \in SampleContents : c.fmt = "xlsx"}
    [] OTHER -> SampleContents

Files ==
  {File(nameCsv, CsvContent(t)) : t \in CsvTexts}
  \cup {File(nameJson, JsonContent(r)) : r \in JsonRoots}
  \cup {File(nameJson, Malformed("json"))}
  \cup {File(nameXlsx, XlsxContent(g)) : g \in SheetGrids}
  \cup {File(nameXlsx, Malformed("xlsx"))}
  \cup UNION {{File(n, c) : c \in ContentOfFormat(toLowerCase(TextAfterLastDot(n)))} : n \in OddNames}

\* ------------------------------------- FileUploadZone.processFile

extCsv == <<"c", "s", "v">>
extXlsx == <<"x", "l", "s", "x">>
extXls == <<"x", "l", "s">>
extJson == <<"j", "s", "o", "n">>

\* a slip for FuzExtension: split('.')[1], the text between the first and
\* the second dot
FuzExtensionSecond(f) ==
  LET name == toLowerCase(f.name)
      dots == {i \in 1..Len(name) : name[i] = "."}
      first == IF dots = {} THEN Len(name) + 1
               ELSE CHOOSE i \in dots : \A j \in dots : i <= j
      rest == SubSeq(name, first + 1, Len(name))
      later == {i \in 1..Len(rest) : rest[i] = "."}
      stop == IF later = {} THEN Len(rest) + 1
              ELSE CHOOSE i \in later : \A j \in later : i <= j
  IN  SubSeq(rest, 1, stop - 1)

\* file.name.toLowerCase().split('.').pop()
FuzExtension(f) == SplitPop(toLowerCase(f.name))

\* the catch block: the UploadedFile of a failed parse
FuzError(f, message) ==
  [file |-> f, data |-> <<>>, headers |-> <<>>, status |-> "error", error |-> message]

\* a slip for FuzReturn: the header check left out
FuzReturnUnchecked(f, data, headers) ==
  IF Len(data) = 0 THEN FuzError(f, <<"File contains no data">>)
  ELSE [file |-> f, data |-> data, headers |-> headers, status |-> "success",
        error |-> <<>>]

\* the post-conditions and the return of the try block
FuzReturn(f, data, headers) ==
  IF Len(data) = 0 THEN FuzError(f, <<"File contains no data">>)
  ELSE IF Len(headers) = 0 THEN FuzError(f, <<"Could not detect column headers">>)
  ELSE [file |-> f, data |-> data, headers |-> headers, status |-> "success",
        error |-> <<>>]

\* a slip for FuzCsv: result.errors not looked at
FuzCsvLenient(f) ==
  LET result == PapaParse(f.content.lines, TRUE, TRUE)
  IN  FuzReturn(f, result.data, result.fields)

FuzCsv(f) ==
  LET result == PapaParse(f.content.lines, TRUE, TRUE)
  IN  IF Len(result.errors) > 0
      THEN FuzError(f, <<"CSV parsing error: ", result.errors[1]>>)
      ELSE FuzReturn(f, result.data, result.fields)

\* String(h).trim() of a header cell
FuzHeaderText(c) == trim(c.v)

NonEmptyText(s) == s # <<>>

\* headers.forEach((header, index) => obj[header] = row[index] || '')
RECURSIVE FuzSheetRowFrom(_, _, _, _)
FuzSheetRowFrom(headers, row, index, acc) ==
  IF index > Len(headers) THEN acc
  ELSE FuzSheetRowFrom(headers, row, index + 1,
         SetProp(acc, headers[index],
                 OrElse(IF index <= Len(row) THEN row[index] ELSE Undefined,
                        EmptyString)))

FuzSheetRow(headers, row) == Obj(FuzSheetRowFrom(headers, row, 1, <<>>))

\* Object.values(row).some(v => v !== '')
FuzRowHasValue(row) == \E v \in Range(ObjectValues(row)) : v # EmptyString

FuzXlsx(f) ==
  IF XlsxThrows(f.content) THEN FuzError(f, <<"Unsupported file">>)
  ELSE LET jsonData == SheetToArrays(f.content.grid)
       IN  IF Len(jsonData) = 0 THEN FuzError(f, <<"Excel file is empty">>)
           ELSE LET headers == SeqFilter(NonEmptyText, SeqMap(FuzHeaderText, jsonData[1]))
                    FromRow(row) == FuzSheetRow(headers, row)
                    data == SeqFilter(FuzRowHasValue, SeqMap(FromRow, Tail(jsonData)))
                IN  FuzReturn(f, data, headers)

\* a slip for FuzJson: the fields of an object root taken as its rows
FuzJsonValues(f) ==
  IF JsonThrows(f.content) THEN FuzError(f, <<"Unexpected token">>)
  ELSE LET jsonData == JsonParse(f.content)
       IN  IF isArray(jsonData)
           THEN IF Len(jsonData.o) > 0 /\ typeof(jsonData.o[1]) = "object"
                THEN IF KeysThrows(jsonData.o[1])
                     THEN FuzError(f, <<"Cannot convert undefined or null to object">>)
                     ELSE FuzReturn(f, jsonData.o, ObjectKeys(jsonData.o[1]))
                ELSE FuzReturn(f, jsonData.o, <<>>)
           ELSE IF typeof(jsonData) = "object"
                THEN IF KeysThrows(jsonData)
                     THEN FuzError(f, <<"Cannot convert undefined or null to object">>)
                     ELSE FuzReturn(f, ObjectValues(jsonData), ObjectKeys(jsonData))
                ELSE FuzError(f, <<"JSON must be an array or object">>)

FuzJson(f) ==
  IF JsonThrows(f.content) THEN FuzError(f, <<"Unexpected token">>)
  ELSE LET jsonData == JsonParse(f.content)
       IN  IF isArray(jsonData)
           THEN IF Len(jsonData.o) > 0 /\ typeof(jsonData.o[1]) = "object"
                THEN IF KeysThrows(jsonData.o[1])
                     THEN FuzError(f, <<"Cannot convert undefined or null to object">>)
                     ELSE FuzReturn(f, jsonData.o, ObjectKeys(jsonData.o[1]))
                ELSE FuzReturn(f, jsonData.o, <<>>)
           ELSE IF typeof(jsonData) = "object"
                THEN IF KeysThrows(jsonData)
                     THEN FuzError(f, <<"Cannot convert undefined or null to object">>)
                     ELSE FuzReturn(f, <<jsonData>>, ObjectKeys(jsonData))
                ELSE FuzError(f, <<"JSON must be an array or object">>)

\* whether processFile reads the file (file.text() / file.arrayBuffer())
FuzReads(f) == FuzExtension(f) \in {extCsv, extXlsx, extXls, extJson}

processFile(f) ==
  LET extension == FuzExtension(f)
  IN  CASE extension = extCsv -> FuzCsv(f)
        [] extension \in {extXlsx, extXls} -> FuzXlsx(f)
        [] extension = extJson -> FuzJson(f)
        [] OTHER -> FuzError(f, <<"Unsupported file type: ">> \o extension)

\* ------------------------- EnterpriseUploadZone.analyzeDataTypes

\* the date-only ISO form YYYY-MM-DD, which every engine parses
IsIsoDate(s) ==
  /\ Len(s) = 10
  /\ s[5] = "-" /\ s[8] = "-"
  /\ \A i \in {1, 2, 3, 4, 6, 7, 9, 10} : s[i] \in Digits
  /\ 10 * DigitVal(s[6]) + DigitVal(s[7]) \in 1..12
  /\ 10 * DigitVal(s[9]) + DigitVal(s[10]) \in 1..31

\* Whether the engine's Date.parse accepts digit-only text ("1", "30"):
\* outside the ISO forms the result of Date.parse is left to the engine.
VARIABLE lenientDates

\* !isNaN(Date.parse(s)); the other texts of the model ("", "x", "hello",
\* " b ") are rejected by every engine
DateParses(s) == IsIsoDate(s) \/ (lenientDates /\ IsFloat(s))

\* a slip for TypeTag: the '@' test left out
TypeTagNoEmail(value) ==
  IF typeof(value) = "number" THEN <<"number">>
  ELSE IF typeof(value) = "boolean" THEN <<"boolean">>
  ELSE IF typeof(value) = "string"
       THEN IF DateParses(value.v) THEN <<"date">>
            ELSE <<"string">>
  ELSE <<"string">>

\* the tag of one value
TypeTag(value) ==
  IF typeof(value) = "number" THEN <<"number">>
  ELSE IF typeof(value) = "boolean" THEN <<"boolean">>
  ELSE IF typeof(value) = "string"
       THEN IF includes(value.v, "@") THEN <<"email">>
            ELSE IF DateParses(value.v) THEN <<"date">>
            ELSE <<"string">>
  ELSE <<"string">>

RECURSIVE TypesFrom(_, _)
TypesFrom(entries, types) ==
  IF entries = <<>> THEN types
  ELSE TypesFrom(Tail(entries),
                 SetProp(types, Head(entries).key, Str(TypeTag(Head(entries).val))))

\* Object.entries(sample) throws a TypeError on a null sample
AnalyzeThrows(data) == Len(data) > 0 /\ KeysThrows(data[1])

\* a slip for analyzeDataTypes: the last row sampled, not the first
analyzeLastRow(data) ==
  IF Len(data) = 0 THEN Obj(<<>>)
  ELSE LET sample == data[Len(data)]
       IN  Obj(TypesFrom(ObjectEntries(sample), <<>>))

analyzeDataTypes(data) ==
  IF Len(data) = 0 THEN Obj(<<>>)
  ELSE LET sample == data[1]
       IN  Obj(TypesFrom(ObjectEntries(sample), <<>>))

\* ------------------------------ EnterpriseUploadZone.parseFile

\* file.name.split('.').pop()?.toLowerCase()
EntExtension(f) == toLowerCase(SplitPop(f.name))

NoMetadata ==
  [filename |-> <<>>, size |-> 0, type |-> <<>>, uploadedAt |-> 0, sheetName |-> <<>>,
   columns |-> <<>>, rows |-> 0, detectedTypes |-> Obj(<<>>)]

EntReject(message) ==
  [settled |-> "rejected", data |-> <<>>, metadata |-> NoMetadata, error |-> message]

\* resolve({data, metadata: {...metadata, columns, rows, detectedTypes}})
EntResolve(f, at, sheetName, data) ==
  [settled |-> "resolved", data |-> data,
   metadata |-> [filename |-> f.name, size |-> f.size, type |-> EntExtension(f),
                 uploadedAt |-> at, sheetName |-> sheetName,
                 columns |-> ObjectKeys(IF Len(data) > 0 THEN OrElse(data[1], Obj(<<>>))
                                        ELSE Obj(<<>>)),
                 rows |-> Len(data),
                 detectedTypes |-> analyzeDataTypes(data)],
   error |-> <<>>]

\* Object.values(row).some(val => val !== '' && val !== null && val !== undefined)
EntRowHasValue(row) ==
  \E val \in Range(ObjectValues(row)) :
    val # EmptyString /\ val # Null /\ val # Undefined

EntCsv(f, at) ==
  LET results == PapaParse(f.content.lines, TRUE, FALSE)
  IN  IF Len(results.errors) > 0
      THEN EntReject(<<"CSV parsing error: ", results.errors[1]>>)
      ELSE EntResolve(f, at, <<>>, SeqFilter(EntRowHasValue, results.data))

EntXlsx(f, at) ==
  IF XlsxThrows(f.content) THEN EntReject(<<"Unsupported file">>)
  ELSE EntResolve(f, at, <<"Sheet1">>,
                  SeqFilter(EntRowHasValue, SheetToObjects(f.content.grid)))

EntJson(f, at) ==
  IF JsonThrows(f.content) THEN EntReject(<<"Invalid JSON format">>)
  ELSE LET jsonData == JsonParse(f.content)
           dataArray == IF isArray(jsonData) THEN jsonData.o ELSE <<jsonData>>
       IN  IF AnalyzeThrows(dataArray) THEN EntReject(<<"Invalid JSON format">>)
           ELSE EntResolve(f, at, <<>>, dataArray)

EntParseFile(f, at) ==
  LET extension == EntExtension(f)
  IN  CASE extension = extCsv -> EntCsv(f, at)
        [] extension \in {extXlsx, extXls} -> EntXlsx(f, at)
        [] extension = extJson -> EntJson(f, at)
        [] OTHER -> EntReject(<<"Unsupported file format. Please use CSV, Excel, or JSON files.">>)

\* whether parseFile hands the file to a reader (Papa.parse / FileReader)
EntReads(f) == EntExtension(f) \in {extCsv, extXlsx, extXls, extJson}

\* ------------------------------ EnhancedDataGenerator.parseFile

GenExtension(f) == toLowerCase(SplitPop(f.name))

GenReject(message) == [settled |-> "rejected", data |-> <<>>, error |-> message]

GenResolve(data) == [settled |-> "resolved", data |-> data, error |-> <<>>]

\* Object.values(row).some(val => val !== '')
GenCsvRowHasValue(row) == \E val \in Range(ObjectValues(row)) : val # EmptyString

\* Object.values(row).some(val => val !== null && val !== '')
GenXlsxRowHasValue(row) ==
  \E val \in Range(ObjectValues(row)) : val # Null /\ val # EmptyString

GenCsv(f) ==
  LET results == PapaParse(f.content.lines, FALSE, FALSE)
  IN  IF Len(results.errors) > 0
      THEN GenReject(<<"CSV parsing error: ", results.errors[1]>>)
      ELSE GenResolve(SeqFilter(GenCsvRowHasValue, results.data))

GenXlsx(f) ==
  IF XlsxThrows(f.content) THEN GenReject(<<"Unsupported file">>)
  ELSE GenResolve(SeqFilter(GenXlsxRowHasValue, SheetToObjects(f.content.grid)))

GenJson(f) ==
  IF JsonThrows(f.content) THEN GenReject(<<"Invalid JSON format">>)
  ELSE LET jsonData == JsonParse(f.content)
       IN  GenResolve(IF isArray(jsonData) THEN jsonData.o ELSE <<jsonData>>)

GenParseFile(f) ==
  LET extension == GenExtension(f)
  IN  CASE extension = extCsv -> GenCsv(f)
        [] extension \in {extXlsx, extXls} -> GenXlsx(f)
        [] extension = extJson -> GenJson(f)
        [] OTHER -> GenReject(<<"Unsupported file format. Please use CSV, Excel, or JSON files.">>)

GenReads(f) == GenExtension(f) \in {extCsv, extXlsx, extXls, extJson}

\* ------------------------------------------------------------ state

VARIABLES
  component,         \* the mounted upload component
  file,              \* the file the user has picked
  drops,             \* drops made so far
  reads,             \* the files whose read has been started
  toast,             \* the level of the last toast shown
  uploadedFiles,     \* FileUploadZone: useState<UploadedFile[]>([])
  isProcessing,      \* FileUploadZone: useState(false)
  fuzRun,            \* FileUploadZone: the onDrop invocation in flight
  fuzCalls,          \* FileUploadZone: the onFileUpload / onError calls made
  uploadedFile,      \* EnterpriseUploadZone: useState<File | null>(null)
  processingStatus,  \* EnterpriseUploadZone: useState('idle')
  entRuns,           \* EnterpriseUploadZone: the onDrop invocations made, in drop order
  entCalls,          \* EnterpriseUploadZone: the onFileUpload calls made
  sourceData,        \* EnhancedDataGenerator: useState<any[]>([])
  currentStep,       \* EnhancedDataGenerator: useState('upload')
  genRun             \* EnhancedDataGenerator: the onDrop invocation in flight

\* ----------------------------- RealTimeActivityLogger (message effect)

\* most messages the socket delivers
MaxEvents == 2

\* String.prototype.includes with a text
includesText(s, w) == \E i \in 1..(Len(s) - Len(w) + 1) : SubSeq(s, i, i + Len(w) - 1) = w

stepDomain == <<"d", "o", "m", "a", "i", "n", "_", "a", "n", "a", "l", "y", "s", "i", "s">>
stepGeneration == <<"d", "a", "t", "a", "_", "g", "e", "n", "e", "r", "a", "t", "i", "o", "n">>

\* data.step of a message; the empty text stands for a message without one
Steps == {<<>>, stepDomain, stepGeneration}

\* data.progress of a message, when it carries one
Progresses == {-2, -1, 0, 50, 99, 100, 150}

\* lastMessage.data: carries tells whether data.progress is defined
MessageData(carries, progress, step) ==
  [carries |-> carries, progress |-> progress, step |-> step]

Message(type, data) == [type |-> type, data |-> data]

\* what useWebSocket returns before any message has arrived
NoMessage == Message("none", MessageData(FALSE, 0, <<>>))

\* the messages the socket may deliver
Messages ==
  {Message(t, MessageData(TRUE, p, stepDomain)) :
     t \in {"generation_update", "job_update"}, p \in Progresses}
  \cup {Message("job_update", MessageData(TRUE, 50, st)) : st \in Steps}
  \cup {Message("generation_update", MessageData(FALSE, 0, st)) : st \in Steps}
  \cup {Message("pong", MessageData(TRUE, 100, <<>>))}

\* a slip for ActivityStatus: the test for -1 after the test for >= 0,
\* written as a test for any number
ActivityStatusNoError(data) ==
  IF data.carries /\ data.progress = 100 THEN "completed"
  ELSE IF data.carries THEN "in_progress"
  ELSE "started"

\* status: data.progress === 100 ? 'completed' : data.progress === -1 ?
\* 'error' : data.progress >= 0 ? 'in_progress' : 'started'
ActivityStatus(data) ==
  IF data.carries /\ data.progress = 100 THEN "completed"
  ELSE IF data.carries /\ data.progress = -1 THEN "error"
  ELSE IF data.carries /\ data.progress >= 0 THEN "in_progress"
  ELSE "started"

\* level: data.progress === -1 ? 'error' : data.progress === 100 ?
\* 'success' : 'info'
ActivityLevel(data) ==
  IF data.carries /\ data.progress = -1 THEN "error"
  ELSE IF data.carries /\ data.progress = 100 THEN "success"
  ELSE "info"

\* type: data.step || 'system_event'
ActivityType(data) == IF data.step # <<>> THEN data.step ELSE <<"s", "y", "s", "t", "e", "m", "_", "e", "v", "e", "n", "t">>

\* agent: the first of domain, privacy, bias, relationship, quality,
\* generation that data.step includes
ActivityAgent(data) ==
  IF includesText(data.step, <<"d", "o", "m", "a", "i", "n">>) THEN "Domain Expert"
  ELSE IF includesText(data.step, <<"p", "r", "i", "v", "a", "c", "y">>) THEN "Privacy Agent"
  ELSE IF includesText(data.step, <<"b", "i", "a", "s">>) THEN "Bias Detector"
  ELSE IF includesText(data.step, <<"r", "e", "l", "a", "t", "i", "o", "n", "s", "h", "i", "p">>) THEN "Relationship Agent"
  ELSE IF includesText(data.step, <<"q", "u", "a", "l", "i", "t", "y">>) THEN "Quality Agent"
  ELSE IF includesText(data.step, <<"g", "e", "n", "e", "r", "a", "t", "i", "o", "n">>) THEN "Gemini"
  ELSE "System"

\* the ActivityLog built from a message; its id, timestamp, message and
\* metadata are left out
newActivity(data) ==
  [type |-> ActivityType(data), status |-> ActivityStatus(data),
   carries |-> data.carries, progress |-> data.progress,
   agent |-> ActivityAgent(data), level |-> ActivityLevel(data)]

\* the log of the second effect
systemLog ==
  [type |-> <<"i", "n", "i", "t", "i", "a", "l", "i", "z", "a", "t", "i", "o", "n">>, status |-> "completed", carries |-> FALSE, progress |-> 0,
   agent |-> "System", level |-> "success"]

\* updated.slice(0, maxLogs)
SliceTo(list, n) == SubSeq(list, 1, IF Len(list) < n THEN Len(list) ELSE n)

\* the maxLogs prop: 100 unless the parent passes another
MaxLogsValues == {1, 2, 100}

\* --------------------- RealTimeActivityLogger, second variant

\* the name the model gives the second component of the file
LoggerV2 == "RealTimeActivityLogger (second)"

\* most ticks of the mock interval
MaxTicks == 3

typeActivityLog == <<"a", "c", "t", "i", "v", "i", "t", "y", "_", "l", "o", "g">>

\* a message event of the window: parses tells whether JSON.parse(event.data)
\* returns an object (it throws, or data.type does, when it does not)
WindowEvent(parses, type, activityType, status) ==
  [parses |-> parses, type |-> type, activityType |-> activityType, status |-> status]

WindowEvents ==
  {WindowEvent(FALSE, Undefined, Undefined, Undefined),
   WindowEvent(TRUE, Undefined, Undefined, Undefined),
   WindowEvent(TRUE, Str(<<"p", "o", "n", "g">>), Undefined, Str(<<"e", "r", "r", "o", "r">>))}
  \cup {WindowEvent(TRUE, Str(typeActivityLog), t, st) :
          t \in {Undefined, Str(<<"a", "g", "e", "n", "t", "_", "a", "c", "t", "i", "v", "i", "t", "y">>)},
          st \in {Undefined, EmptyString, Str(<<"e", "r", "r", "o", "r">>)}}

\* the ActivityLog handleMessage builds; its id, timestamp, message,
\* metadata and duration are left out
newActivityLog(data) ==
  [type |-> OrElse(data.activityType, Str(<<"s", "y", "s", "t", "e", "m", "_", "e", "v", "e", "n", "t">>)).v,
   status |-> OrElse(data.status, Str(<<"s", "t", "a", "r", "t", "e", "d">>)).v]

\* the mockActivities of the mock interval, without message, metadata
\* and duration
mockActivities ==
  <<[type |-> <<"a", "i", "_", "g", "e", "n", "e", "r", "a", "t", "i", "o", "n">>, status |-> <<"c", "o", "m", "p", "l", "e", "t", "e", "d">>],
    [type |-> <<"a", "g", "e", "n", "t", "_", "a", "c", "t", "i", "v", "i", "t", "y">>, status |-> <<"i", "n", "_", "p", "r", "o", "g", "r", "e", "s", "s">>],
    [type |-> <<"d", "a", "t", "a", "_", "p", "r", "o", "c", "e", "s", "s", "i", "n", "g">>, status |-> <<"c", "o", "m", "p", "l", "e", "t", "e", "d">>],
    [type |-> <<"s", "y", "s", "t", "e", "m", "_", "e", "v", "e", "n", "t">>, status |-> <<"c", "o", "m", "p", "l", "e", "t", "e", "d">>]>>

\* a slip for MockUpdated: the new entry after the old ones
MockUpdatedAtEnd(activity, prev, n) == SliceTo(prev, n - 1) \o <<activity>>

\* [newActivity, ...prev.slice(0, maxLogs - 1)]; slice counts a negative
\* end from the end of the array
MockUpdated(activity, prev, n) ==
  <<activity>> \o (IF n - 1 >= 0 THEN SliceTo(prev, n - 1)
                   ELSE SubSeq(prev, 1, IF Len(prev) + n - 1 > 0 THEN Len(prev) + n - 1 ELSE 0))

VARIABLES
  isGenerating,      \* RealTimeActivityLogger: the isGenerating prop
  maxLogs,           \* RealTimeActivityLogger: the maxLogs prop
  lastMessage,       \* RealTimeActivityLogger: lastMessage of useWebSocket
  events,            \* messages delivered so far
  delivered,         \* the messages the socket has delivered, oldest first
  activities,        \* RealTimeActivityLogger: useState<ActivityLog[]>([])
  currentProgress,   \* RealTimeActivityLogger: useState(0)
  messageEffectDue,  \* the effect on [lastMessage, maxLogs] has to run
  readyEffectDue,    \* the effect on [isGenerating, activities.length] has to run
  logged,            \* the entries the setActivities calls have added, newest first
  ticks              \* ticks of the mock interval so far

logVars ==
  <<isGenerating, maxLogs, lastMessage, events, delivered, activities,
    currentProgress, messageEffectDue, readyEffectDue, logged, ticks>>

\* ------------------------------------------------- useSystemStatus

\* most checkSystemStatus executions that get past the isChecking guard
MaxChecks == 3

\* the checkInterval argument: 30000 unless the caller passes another
CheckIntervals == {0, 30000}

\* what ApiService.healthCheck settles with: the fields the hook reads,
\* or a rejection
HealthResponse(healthy, aiOnline, agentsActive) ==
  [throws |-> FALSE, healthy |-> healthy, aiOnline |-> aiOnline,
   agentsActive |-> agentsActive]

HealthResponses ==
  {HealthResponse(h, o, a) : h \in BOOLEAN, o \in BOOLEAN, a \in BOOLEAN}
  \cup {[throws |-> TRUE, healthy |-> FALSE, aiOnline |-> FALSE, agentsActive |-> FALSE]}

\* what ApiService.getAgentsStatus settles with: a rejection, a value
\* without agents, or the orchestrator's status
AgentsResponses == {"throws", "none", "active", "inactive"}

\* the fields of SystemStatusData that decide overall.status
StatusData(backendHealthy, aiOnline, agentsActive, overall) ==
  [backendHealthy |-> backendHealthy, aiOnline |-> aiOnline,
   agentsActive |-> agentsActive, overall |-> overall]

\* useState<SystemStatusData>({...})
initialStatus == StatusData(FALSE, FALSE, FALSE, "unhealthy")

\* Determine overall system status
overallStatus(backendHealthy, aiOnline, agentsActive) ==
  IF backendHealthy /\ aiOnline /\ agentsActive THEN "healthy"
  ELSE IF backendHealthy THEN "degraded"
  ELSE "unhealthy"

\* newStatus after the health response, before the agents' status
newStatus(r) ==
  StatusData(r.healthy, r.aiOnline, r.agentsActive,
             overallStatus(r.healthy, r.aiOnline, r.agentsActive))

\* newStatus with newStatus.agents replaced by the agents' status
withAgents(st, agents) ==
  IF agents \in {"throws", "none"} THEN st
  ELSE StatusData(st.backendHealthy, st.aiOnline, agents = "active",
                  overallStatus(st.backendHealthy, st.aiOnline, agents = "active"))

\* the catch block's status
errorStatus == StatusData(FALSE, FALSE, FALSE, "unhealthy")

\* the timer of setInterval: whether it is set, and the isChecking its
\* checkSystemStatus was made with
NoInterval == [set |-> FALSE, isChecking |-> FALSE]

VARIABLES
  checkInterval,       \* useSystemStatus: the checkInterval argument
  status,              \* useSystemStatus: useState<SystemStatusData>
  isChecking,          \* useSystemStatus: useState(false)
  renderedIsChecking,  \* isChecking as the last render saw it
  statusEffectDue,     \* the effect on [checkSystemStatus, checkInterval] has to run
  mounted,             \* the effect has run once
  interval,            \* the timer the effect has set
  checks,              \* the checkSystemStatus executions in flight
  checksStarted,       \* executions that got past the guard
  forcedChecks         \* forceCheck calls made

sysVars ==
  <<checkInterval, status, isChecking, renderedIsChecking, statusEffectDue,
    mounted, interval, checks, checksStarted, forcedChecks>>

\* ------------------------------------------ data/DataReviewEditor

\* most actions the user takes on the editor
MaxEdits == 4

\* most rows of initialData
MaxInitialRows == 2

NaN == Num(<<"N", "a", "N">>)

\* String(value) of a text, a number or undefined
StringOf(v) ==
  IF v = Undefined THEN <<"u", "n", "d", "e", "f", "i", "n", "e", "d">>
  ELSE v.v

keyName == <<"n", "a", "m", "e">>
keyAge == <<"a", "g", "e">>
keyEmail == <<"e", "m", "a", "i", "l">>

\* a DataRow: its id and its other properties in insertion order
DataRow(id, cells) == [id |-> id, cells |-> cells]

\* the decimal text of a number
RECURSIVE Decimal(_)
Decimal(n) ==
  IF n < 10 THEN IndexKey(n) ELSE Decimal(n \div 10) \o IndexKey(n % 10)

\* `row-${n}`
RowId(n) == <<"r", "o", "w", "-">> \o Decimal(n)

HasKey(row, k) == \E i \in 1..Len(row.cells) : row.cells[i].key = k

\* row[k]
Get(row, k) ==
  IF HasKey(row, k)
  THEN row.cells[CHOOSE i \in 1..Len(row.cells) : row.cells[i].key = k].val
  ELSE Undefined

\* { ...row, [k]: v }
With(row, k, v) == DataRow(row.id, SetProp(row.cells, k, v))

\* const { id, ...rest } = row; return rest
rest(row) == row.cells

\* the names initialData may hold, and the texts typed into a cell
Names == {Str(<<"a">>), Str(<<"X">>)}
TypedValues == {Str(<<>>), Str(<<"x">>)}

\* the texts typed into the search box
SearchTerms == {<<>>, <<"x">>, <<"0">>}

\* the texts typed into the natural-language box
promptBlank == <<" ">>
promptAge == <<"r", "e", "a", "l", "i", "s", "t", "i", "c", " ", "a", "g", "e">>
promptName == <<"D", "i", "v", "e", "r", "s", "e", " ", "n", "a", "m", "e", "s">>
promptEmail == <<"f", "i", "x", " ", "e", "m", "a", "i", "l">>
promptOther == <<"s", "o", "r", "t">>
Prompts == {<<>>, promptBlank, promptAge, promptName, promptEmail, promptOther}

\* the initialData prop: up to MaxInitialRows rows with a name
RECURSIVE InitialDatas(_)
InitialDatas(n) ==
  IF n = 0 THEN {<<>>}
  ELSE InitialDatas(n - 1)
       \cup {Append(d, <<Entry(keyName, v)>>) : d \in {e \in InitialDatas(n - 1) : Len(e) = n - 1},
                                               v \in Names}

\* initialData.map((row, index) => ({ id: `row-${index}`, ...row }))
initialRows(initialData) ==
  [i \in 1..Len(initialData) |-> DataRow(RowId(i - 1), initialData[i])]

\* Object.values(row).some(value => String(value).toLowerCase().includes(term))
RowMatches(row, term) ==
  \/ includesText(toLowerCase(row.id), term)
  \/ \E i \in 1..Len(row.cells) :
       includesText(toLowerCase(StringOf(row.cells[i].val)), term)

RECURSIVE FilterRows(_, _)
FilterRows(rows, term) ==
  IF rows = <<>> THEN <<>>
  ELSE IF RowMatches(Head(rows), term)
       THEN <<Head(rows)>> \o FilterRows(Tail(rows), term)
       ELSE FilterRows(Tail(rows), term)

\* filteredData
filterData(rows, term) ==
  IF term = <<>> THEN rows ELSE FilterRows(rows, toLowerCase(term))

diverseNames ==
  <<<<"M", "a", "r", "i", "a", " ", "G", "a", "r", "c", "i", "a">>, <<"W", "e", "i", " ", "C", "h", "e", "n">>, <<"A", "i", "s", "h", "a", " ", "P", "a", "t", "e", "l">>, <<"O", "m", "a", "r", " ", "H", "a", "s", "s", "a", "n">>, <<"S", "o", "f", "i", "a", " ", "R", "o", "d", "r", "i", "g", "u", "e", "z">>>>

RECURSIVE WithoutWhitespace(_)
WithoutWhitespace(t) ==
  IF t = <<>> THEN <<>>
  ELSE IF Head(t) \in Whitespace THEN WithoutWhitespace(Tail(t))
       ELSE <<Head(t)>> \o WithoutWhitespace(Tail(t))

\* Math.max(18, Math.min(85, Number(row.age) + ...)): the texts of
\* TypedValues and Names are no numbers and give NaN
realisticAge(v) == NaN

\* the rows handleNaturalLanguageEdit makes of the rows it was called with
nlNewData(rows, nlPromptText) ==
  LET prompt == toLowerCase(nlPromptText)
  IN IF includesText(prompt, keyAge) /\ includesText(prompt, <<"r", "e", "a", "l", "i", "s", "t", "i", "c">>)
     THEN [i \in 1..Len(rows) |->
             With(rows[i], keyAge,
                  IF Truthy(Get(rows[i], keyAge)) THEN realisticAge(Get(rows[i], keyAge))
                  ELSE Get(rows[i], keyAge))]
     ELSE IF includesText(prompt, keyName) /\ includesText(prompt, <<"d", "i", "v", "e", "r", "s", "e">>)
     THEN [i \in 1..Len(rows) |->
             With(rows[i], keyName,
                  IF Truthy(Get(rows[i], keyName)) THEN Str(diverseNames[((i - 1) % 5) + 1])
                  ELSE Get(rows[i], keyName))]
     ELSE IF includesText(prompt, keyEmail) /\ includesText(prompt, <<"f", "i", "x">>)
     THEN [i \in 1..Len(rows) |->
             With(rows[i], keyEmail,
                  IF Truthy(Get(rows[i], keyEmail))
                  THEN Str(WithoutWhitespace(toLowerCase(Get(rows[i], keyEmail).v)))
                  ELSE Get(rows[i], keyEmail))]
     ELSE rows

\* an EditHistory entry: its action and, for edit_cells, changes.old and
\* changes.new
HistoryEntry(action, old, new) == [action |-> action, old |-> old, new |-> new]

\* what setEditHistory and setCurrentHistoryIndex of addToHistory make of
\* the state, for an addToHistory made by a render that saw the cursor at seen
historyAfter(history, seen, entry) ==
  SubSeq(history, 1, IF seen + 1 < Len(history) THEN seen + 1 ELSE Len(history))
  \o <<entry>>

\* a natural-language edit in flight: the data, prompt and cursor its
\* render saw
NoNlRun == [waiting |-> FALSE, data |-> <<>>, nlPrompt |-> <<>>, seen |-> -1]

\* onDataChange has not been called
NotCalled == <<"not called">>

VARIABLES
  gridData,             \* data/DataReviewEditor: useState<DataRow[]> (data)
  selectedRows,         \* data/DataReviewEditor: useState<Set<string>>
  searchTerm,           \* data/DataReviewEditor: useState('')
  nlPrompt,             \* data/DataReviewEditor: useState('')
  isProcessingNL,       \* data/DataReviewEditor: useState(false)
  editHistory,          \* data/DataReviewEditor: useState<EditHistory[]>([])
  currentHistoryIndex,  \* data/DataReviewEditor: useState(-1)
  nlRun,                \* the handleNaturalLanguageEdit call in flight
  dataChanged,          \* the rows of the last onDataChange call
  edits,                \* actions the user has taken
  nextRowId             \* the number of the next new row's id

gridVars ==
  <<gridData, selectedRows, searchTerm, nlPrompt, isProcessingNL, editHistory,
    currentHistoryIndex, nlRun, dataChanged, edits, nextRowId>>

\* ------------------------------------- EnhancedDataGenerator (page)

\* most clicks and inputs of the user on the page, the drops apart
MaxClicks == 4

\* the files with which the steps after the upload are followed: one that
\* parses to records, one that parses to none, one that fails to parse
PageFiles ==
  {File(nameCsv, CsvContent(<<<<sA, sB>>, <<sOne, sTwo>>>>)),
   File(nameJson, JsonContent(Arr(<<>>))),
   File(nameJson, Malformed("json"))}

\* the texts typed into the description box
Descriptions == {<<>>, <<" ">>, <<"x">>}

\* lastMessage of the page's socket: whether JSON.parse(lastMessage.data)
\* succeeds, and of the parsed message its type, whether it has a data
\* property, data.status and data.progress (0 when it has none)
GenMessage(parses, type, hasData, st, progress) ==
  [parses |-> parses, type |-> type, hasData |-> hasData, status |-> st,
   progress |-> progress]

NoGenMessage == GenMessage(FALSE, "none", FALSE, "none", 0)

GenMessages ==
  {GenMessage(FALSE, "text", FALSE, "none", 0),
   GenMessage(TRUE, "pong", FALSE, "none", 0),
   GenMessage(TRUE, "generation_update", FALSE, "none", 0),
   GenMessage(TRUE, "generation_update", TRUE, "running", 50),
   GenMessage(TRUE, "generation_update", TRUE, "error", 0),
   GenMessage(TRUE, "generation_update", TRUE, "completed", 100)}

\* newLog: its level and progress
newLog(message) ==
  [level |-> IF message.status = "error" THEN "error" ELSE "info",
   progress |-> message.progress]

VARIABLES
  generatedData,               \* EnhancedDataGenerator: useState<GeneratedData | null>(null)
  generating,                  \* EnhancedDataGenerator: useState(false) (isGenerating)
  naturalLanguageDescription,  \* EnhancedDataGenerator: useState('')
  generationMode,              \* EnhancedDataGenerator: useState('file')
  logs,                        \* EnhancedDataGenerator: useState<any[]>([])
  genProgress,                 \* EnhancedDataGenerator: useState(0) (currentProgress)
  showLogger,                  \* EnhancedDataGenerator: useState(false)
  genLastMessage,              \* EnhancedDataGenerator: lastMessage of useWebSocket
  genEffectDue,                \* the effect on [lastMessage] has to run
  genEvents,                   \* messages delivered so far
  generations,                 \* the generateFrom... calls in flight
  clicks                       \* clicks and inputs made so far

edgVars ==
  <<generatedData, generating, naturalLanguageDescription, generationMode, logs,
    genProgress, showLogger, genLastMessage, genEffectDue, genEvents,
    generations, clicks>>

\* ------------------------------------- components/DataReviewEditor

\* editingRow and editingField when they are null
NullRow == -1
NullField == <<>>

\* the rows are objects shared by the data prop, localData and the arrays
\* made of them: rowObjects holds the properties of each, and the arrays
\* hold references, the places of the objects in rowObjects
RefsOf(rows) == [i \in 1..Len(rows) |-> i]

\* no cell has been selected
NoRef == 0

\* onDataUpdate has not been called
NoUpdate == [called |-> FALSE, data |-> <<>>]
Update(rows) == [called |-> TRUE, data |-> rows]

VARIABLES
  rowObjects,    \* the row objects, by reference
  dataProp,      \* components/DataReviewEditor: the data prop
  isEditing,     \* components/DataReviewEditor: the isEditing prop
  editMode,      \* components/DataReviewEditor: useState(null)
  editingRow,    \* components/DataReviewEditor: useState<number | null>(null)
  editingField,  \* components/DataReviewEditor: useState<string | null>(null)
  editValue,     \* components/DataReviewEditor: useState('')
  promptText,    \* components/DataReviewEditor: useState('')
  localData,     \* components/DataReviewEditor: useState(data)
  selectedRef,   \* the row object the last handleCellEdit selected
  dataUpdated,   \* the argument of the last onDataUpdate call
  promptEdits,   \* onPromptEdit calls made
  cellSaves,     \* handleCellSave calls that wrote a cell
  reviewSteps    \* actions the user has taken

revVars ==
  <<rowObjects, dataProp, isEditing, editMode, editingRow, editingField, editValue,
    promptText, localData, selectedRef, dataUpdated, promptEdits, cellSaves, reviewSteps>>

\* ----------------------------------------------------- model store

\* most operations of the store that are started
MaxOps == 4

\* config.provider of the configurations that are set
Providers == {"gemini", "ollama"}

\* modelConfigAtom without a model
NoModel == [provider |-> "none", isActive |-> FALSE]

\* { ...config, isActive: true, lastTested }; model, apiKey, endpoint and
\* lastTested are left out
fullConfig(provider) == [provider |-> provider, isActive |-> TRUE]

\* what localStorage may hold under 'datagenesis-model-config'
StoredConfigs == {NoModel} \cup {fullConfig(p) : p \in Providers}

\* an operation that waits at an await
Op(name, provider, awaits) == [name |-> name, provider |-> provider, awaits |-> awaits]

VARIABLES
  modelConfigAtom,         \* atomWithStorage('datagenesis-model-config', null)
  modelHealthAtom,         \* its status: atom({status: 'offline', ...})
  isConfiguringModelAtom,  \* atom(false)
  isTestingModelAtom,      \* atom(false)
  ops,                     \* the configure and test operations in flight
  opsStarted               \* operations started so far

storeVars ==
  <<modelConfigAtom, modelHealthAtom, isConfiguringModelAtom, isTestingModelAtom, ops,
    opsStarted>>

\* the state of the components other than the upload zones and the logger
pageVars == <<sysVars, gridVars, edgVars, revVars, storeVars>>

envVars == <<component, file, lenientDates, drops, reads, toast>>
fuzVars == <<uploadedFiles, isProcessing, fuzRun, fuzCalls>>
entVars == <<uploadedFile, processingStatus, entRuns, entCalls>>
genVars == <<sourceData, currentStep, genRun>>
\* the state of the upload components and the logger
uploadVars == <<envVars, fuzVars, entVars, genVars, logVars>>

vars == <<envVars, fuzVars, entVars, genVars, logVars, pageVars>>

UploadComponents == {"FileUploadZone", "EnterpriseUploadZone", "EnhancedDataGenerator"}

Components ==
  {"FileUploadZone", "EnterpriseUploadZone", "EnhancedDataGenerator",
   "RealTimeActivityLogger", "useSystemStatus", "data/DataReviewEditor",
   "DataReviewEditor", LoggerV2, "modelStore"}

NoFile == File(<<>>, Malformed("none"))

NoResult == FuzError(NoFile, <<>>)

\* an invocation of FileUploadZone.onDrop: its argument, the files the
\* loop has still to take (the first of them in processFile), the results
\* pushed, the callbacks made, the result processFile has settled with
FuzIdle ==
  [pc |-> "idle", accepted |-> <<>>, queue |-> <<>>, results |-> <<>>, calls |-> <<>>,
   result |-> NoResult]

GenIdle == [pc |-> "idle", file |-> NoFile, result |-> GenReject(<<>>)]

\* what react-dropzone hands to onDrop: the picked file, or nothing when
\* it rejects the file (multiple: false)
AcceptedFiles == {<<>>, <<file>>}

\* a second file at the user's hand
nameOther == <<"e", ".", "c", "s", "v">>

otherFile == File(nameOther, CsvContent(<<<<sA, sB>>, <<sOne, sTwo>>>>))

Init ==
  /\ component \in Components
  \* the upload components alone take a file
  /\ file \in (IF component \in UploadComponents THEN Files ELSE {NoFile})
  \* Date.parse is called by EnterpriseUploadZone only
  /\ lenientDates \in (IF component = "EnterpriseUploadZone"
                         THEN BOOLEAN ELSE {FALSE})
  /\ drops = 0
  /\ reads = {}
  /\ toast = "none"
  /\ uploadedFiles = <<>>
  /\ isProcessing = FALSE
  /\ fuzRun = FuzIdle
  /\ fuzCalls = <<>>
  /\ uploadedFile = NoFile
  /\ processingStatus = "idle"
  /\ entRuns = <<>>
  /\ entCalls = <<>>
  /\ sourceData = <<>>
  /\ currentStep = "upload"
  /\ genRun = GenIdle
  /\ isGenerating \in (IF component = "RealTimeActivityLogger" THEN BOOLEAN ELSE {FALSE})
  /\ maxLogs \in (IF component \in {"RealTimeActivityLogger", LoggerV2} THEN MaxLogsValues ELSE {100})
  /\ lastMessage = NoMessage
  /\ events = 0
  /\ delivered = <<>>
  /\ activities = <<>>
  /\ currentProgress = 0
  /\ messageEffectDue = FALSE
  /\ readyEffectDue = (component = "RealTimeActivityLogger")
  /\ logged = <<>>
  /\ ticks = 0
  /\ checkInterval \in (IF component = "useSystemStatus" THEN CheckIntervals ELSE {0})
  /\ status = initialStatus
  /\ isChecking = FALSE
  /\ renderedIsChecking = FALSE
  /\ statusEffectDue = (component = "useSystemStatus")
  /\ mounted = FALSE
  /\ interval = NoInterval
  /\ checks = <<>>
  /\ checksStarted = 0
  /\ forcedChecks = 0
  /\ gridData \in (IF component = "data/DataReviewEditor"
                    THEN {initialRows(d) : d \in InitialDatas(MaxInitialRows)} ELSE {<<>>})
  /\ selectedRows = {}
  /\ searchTerm = <<>>
  /\ nlPrompt = <<>>
  /\ isProcessingNL = FALSE
  /\ editHistory = <<>>
  /\ currentHistoryIndex = -1
  /\ nlRun = NoNlRun
  /\ dataChanged = NotCalled
  /\ edits = 0
  /\ nextRowId = MaxInitialRows
  /\ generatedData = "null"
  /\ generating = FALSE
  /\ naturalLanguageDescription = <<>>
  /\ generationMode = "file"
  /\ logs = <<>>
  /\ genProgress = 0
  /\ showLogger = FALSE
  /\ genLastMessage = NoGenMessage
  /\ genEffectDue = FALSE
  /\ genEvents = 0
  /\ generations = <<>>
  /\ clicks = 0
  /\ rowObjects \in (IF component = "DataReviewEditor"
                      THEN InitialDatas(MaxInitialRows) ELSE {<<>>})
  /\ dataProp = RefsOf(rowObjects)
  /\ isEditing \in (IF component = "DataReviewEditor" THEN BOOLEAN ELSE {FALSE})
  /\ editMode = "null"
  /\ editingRow = NullRow
  /\ editingField = NullField
  /\ editValue = <<>>
  /\ promptText = <<>>
  /\ localData = dataProp
  /\ selectedRef = NoRef
  /\ dataUpdated = NoUpdate
  /\ promptEdits = 0
  /\ cellSaves = 0
  /\ reviewSteps = 0
  /\ modelConfigAtom \in (IF component = "modelStore" THEN StoredConfigs ELSE {NoModel})
  /\ modelHealthAtom = "offline"
  /\ isConfiguringModelAtom = FALSE
  /\ isTestingModelAtom = FALSE
  /\ ops = <<>>
  /\ opsStarted = 0

\* ------------------------------------------ FileUploadZone.onDrop

\* the loop reaches `await processFile(file)` for the head of the queue:
\* processFile runs up to its first await, or to its end when it reads
\* nothing
FuzBegin(accepted, queue, results, calls) ==
  [pc |-> IF queue = <<>> THEN "finish"
          ELSE IF FuzReads(Head(queue)) THEN "reading" ELSE "settled",
   accepted |-> accepted, queue |-> queue, results |-> results, calls |-> calls,
   result |-> IF queue # <<>> /\ ~FuzReads(Head(queue))
              THEN processFile(Head(queue)) ELSE NoResult]

\* the file whose read the loop has just started, if any
FuzStartsRead(run) == IF run.pc = "reading" THEN {Head(run.queue)} ELSE {}

\* what react-dropzone hands to FileUploadZone.onDrop: at most one file,
\* or several when the parent passes multiple
FuzAccepted == {<<>>, <<file>>, <<file, otherFile>>, <<otherFile, file>>}

\* onDrop is called: setIsProcessing(true), results = [], the loop starts
FuzOnDrop ==
  /\ component = "FileUploadZone"
  /\ fuzRun.pc = "idle"
  /\ drops < MaxDrops
  /\ \E acceptedFiles \in FuzAccepted :
       /\ fuzRun' = FuzBegin(acceptedFiles, acceptedFiles, <<>>, <<>>)
       /\ reads' = reads \cup FuzStartsRead(fuzRun')
  /\ isProcessing' = TRUE
  /\ drops' = drops + 1
  /\ UNCHANGED <<component, file, lenientDates, toast, uploadedFiles, fuzCalls, entVars, genVars, logVars, pageVars>>

\* file.text() / file.arrayBuffer() resolves and processFile runs to its end
FuzFileRead ==
  /\ fuzRun.pc = "reading"
  /\ fuzRun' = [fuzRun EXCEPT !.pc = "settled", !.result = processFile(Head(fuzRun.queue))]
  /\ UNCHANGED <<envVars, uploadedFiles, isProcessing, fuzCalls, entVars, genVars, logVars, pageVars>>

\* a slip for FuzCallback: onError not called
FuzCallbackSuccessOnly(result) ==
  IF result.status = "success"
  THEN <<[cb |-> "onFileUpload", file |-> result.file, data |-> result.data,
          headers |-> result.headers, error |-> <<>>]>>
  ELSE <<>>

\* the callback made for one result (each call is recorded with the file
\* it is made for)
FuzCallback(result) ==
  IF result.status = "success"
  THEN <<[cb |-> "onFileUpload", file |-> result.file, data |-> result.data,
          headers |-> result.headers, error |-> <<>>]>>
  ELSE IF result.error # <<>>
       THEN <<[cb |-> "onError", file |-> result.file, data |-> <<>>, headers |-> <<>>,
               error |-> result.error]>>
       ELSE <<>>

\* `await processFile(file)` resumes: results.push(result), the callback,
\* then the next file
FuzResume ==
  /\ fuzRun.pc = "settled"
  /\ fuzCalls' = fuzCalls \o FuzCallback(fuzRun.result)
  /\ fuzRun' = FuzBegin(fuzRun.accepted, Tail(fuzRun.queue),
                        Append(fuzRun.results, fuzRun.result),
                        fuzRun.calls \o FuzCallback(fuzRun.result))
  /\ reads' = reads \cup FuzStartsRead(fuzRun')
  /\ UNCHANGED <<component, file, lenientDates, drops, toast, uploadedFiles, isProcessing, entVars, genVars, logVars, pageVars>>

\* after the loop: setUploadedFiles(prev => [...prev, ...results]) and the
\* finally block
FuzFinish ==
  /\ fuzRun.pc = "finish"
  /\ uploadedFiles' = uploadedFiles \o fuzRun.results
  /\ isProcessing' = FALSE
  /\ fuzRun' = FuzIdle
  /\ UNCHANGED <<envVars, fuzCalls, entVars, genVars, logVars, pageVars>>

\* setUploadedFiles(prev => prev.filter((_, i) => i !== index))
removeFile(index) ==
  /\ component = "FileUploadZone"
  /\ index \in 1..Len(uploadedFiles)
  /\ uploadedFiles' = [i \in 1..(Len(uploadedFiles) - 1) |->
                         IF i < index THEN uploadedFiles[i] ELSE uploadedFiles[i + 1]]
  /\ UNCHANGED <<envVars, isProcessing, fuzRun, fuzCalls, entVars, genVars, logVars, pageVars>>

RemoveFile == \E index \in 1..MaxDrops : removeFile(index)

\* ------------------------------------ EnterpriseUploadZone.onDrop

\* new Date() inside parseFile
Clock == 0..MaxClock

\* the dropzone is enabled whatever processingStatus is (disabled follows
\* the isProcessing prop, false by default), so a file can be dropped
\* while earlier invocations of onDrop are still in flight
EntAccepted == {<<>>, <<file>>, <<otherFile>>}

\* parseFile(file) up to the hand-over of the file to its reader; an
\* unsupported name rejects at once
EntBegin(f, at) ==
  IF EntReads(f)
  THEN [pc |-> "reading", file |-> f, at |-> at, result |-> EntReject(<<>>)]
  ELSE [pc |-> "settled", file |-> f, at |-> at, result |-> EntParseFile(f, at)]

\* the clock does not run backwards
LaterClock == {at \in Clock : \A i \in 1..Len(entRuns) : entRuns[i].at <= at}

\* onDrop is called: setUploadedFile, setProcessingStatus('parsing') and
\* the call of parseFile
EntOnDrop ==
  /\ component = "EnterpriseUploadZone"
  /\ drops < MaxDrops
  /\ drops' = drops + 1
  /\ \E acceptedFiles \in EntAccepted, at \in LaterClock :
       IF Len(acceptedFiles) > 0
       THEN /\ uploadedFile' = acceptedFiles[1]
            /\ processingStatus' = "parsing"
            /\ entRuns' = Append(entRuns, EntBegin(acceptedFiles[1], at))
            /\ reads' = reads \cup (IF EntReads(acceptedFiles[1])
                                     THEN {acceptedFiles[1]} ELSE {})
       ELSE UNCHANGED <<uploadedFile, processingStatus, entRuns, reads>>
  /\ UNCHANGED <<component, file, lenientDates, toast, entCalls, fuzVars, genVars, logVars, pageVars>>

\* the reader delivers the file and parseFile settles
EntFileRead ==
  \E i \in 1..Len(entRuns) :
    /\ entRuns[i].pc = "reading"
    /\ entRuns' = [entRuns EXCEPT ![i].pc = "settled",
                                  ![i].result = EntParseFile(entRuns[i].file, entRuns[i].at)]
    /\ UNCHANGED <<envVars, uploadedFile, processingStatus, entCalls, fuzVars, genVars, logVars, pageVars>>

\* `await parseFile(file)` resumes: 'analyzing' and the timer, or the catch
EntResume ==
  \E i \in 1..Len(entRuns) :
    /\ entRuns[i].pc = "settled"
    /\ IF entRuns[i].result.settled = "resolved"
       THEN /\ processingStatus' = "analyzing"
            /\ entRuns' = [entRuns EXCEPT ![i].pc = "waiting"]
            /\ toast' = toast
       ELSE /\ processingStatus' = "idle"
            /\ entRuns' = [entRuns EXCEPT ![i].pc = "done"]
            /\ toast' = "error"
    /\ UNCHANGED <<component, file, lenientDates, drops, reads, uploadedFile, entCalls, fuzVars, genVars, logVars, pageVars>>

\* the one-second timer fires: 'complete' and onFileUpload
EntTimeout ==
  \E i \in 1..Len(entRuns) :
    /\ entRuns[i].pc = "waiting"
    /\ processingStatus' = "complete"
    /\ entCalls' = Append(entCalls, [file |-> entRuns[i].file,
                                     data |-> entRuns[i].result.data,
                                     metadata |-> entRuns[i].result.metadata])
    /\ toast' = "success"
    /\ entRuns' = [entRuns EXCEPT ![i].pc = "done"]
    /\ UNCHANGED <<component, file, lenientDates, drops, reads, uploadedFile, fuzVars, genVars, logVars, pageVars>>

\* ----------------------------------- EnhancedDataGenerator.onDrop

\* the dropzone is on the page in file mode at the upload step
GenOnDrop ==
  /\ component = "EnhancedDataGenerator"
  /\ generationMode = "file" /\ currentStep = "upload"
  /\ genRun.pc = "idle"
  /\ drops < MaxDrops
  /\ drops' = drops + 1
  /\ \E acceptedFiles \in AcceptedFiles :
       IF Len(acceptedFiles) > 0
       THEN IF GenReads(acceptedFiles[1])
            THEN /\ genRun' = [pc |-> "reading", file |-> acceptedFiles[1],
                               result |-> GenReject(<<>>)]
                 /\ reads' = reads \cup {acceptedFiles[1]}
            ELSE /\ genRun' = [pc |-> "settled", file |-> acceptedFiles[1],
                               result |-> GenParseFile(acceptedFiles[1])]
                 /\ reads' = reads
       ELSE UNCHANGED <<genRun, reads>>
  /\ UNCHANGED <<component, file, lenientDates, toast, sourceData, currentStep, fuzVars, entVars, logVars, pageVars>>

GenFileRead ==
  /\ genRun.pc = "reading"
  /\ genRun' = [genRun EXCEPT !.pc = "settled", !.result = GenParseFile(genRun.file)]
  /\ UNCHANGED <<envVars, sourceData, currentStep, fuzVars, entVars, logVars, pageVars>>

\* `await parseFile(file)` resumes: setSourceData and 'preview', or the catch
GenResume ==
  /\ genRun.pc = "settled"
  /\ IF genRun.result.settled = "resolved"
     THEN /\ sourceData' = genRun.result.data
          /\ currentStep' = "preview"
          /\ toast' = "success"
     ELSE /\ UNCHANGED <<sourceData, currentStep>>
          /\ toast' = "error"
  /\ genRun' = GenIdle
  /\ UNCHANGED <<component, file, lenientDates, drops, reads, fuzVars, entVars, logVars, pageVars>>

\* ------------------------------------ RealTimeActivityLogger effects

\* the socket delivers a message: useWebSocket returns it as lastMessage
\* and the component renders again; a message that arrives before the
\* effect of the one before it has run takes its place
LoggerReceive ==
  /\ component = "RealTimeActivityLogger"
  /\ events < MaxEvents
  /\ events' = events + 1
  /\ \E m \in Messages :
       /\ lastMessage' = m
       /\ delivered' = Append(delivered, m)
  /\ messageEffectDue' = TRUE
  /\ UNCHANGED <<envVars, fuzVars, entVars, genVars, pageVars, isGenerating, maxLogs, activities,
                 currentProgress, readyEffectDue, logged, ticks>>

\* useEffect(..., [lastMessage, maxLogs]); the effects of a render run
\* before those of the next one, so the effect set off by a message waits
\* for the effect an earlier change of activities.length has set off
LoggerMessageEffect ==
  /\ messageEffectDue
  /\ ~readyEffectDue
  /\ messageEffectDue' = FALSE
  /\ IF lastMessage.type \in {"generation_update", "job_update"}
     THEN /\ activities' = SliceTo(<<newActivity(lastMessage.data)>> \o activities, maxLogs)
          /\ currentProgress' = IF lastMessage.data.carries
                                THEN lastMessage.data.progress ELSE currentProgress
          /\ readyEffectDue' = (readyEffectDue \/ Len(activities') # Len(activities))
          /\ logged' = <<newActivity(lastMessage.data)>> \o logged
     ELSE UNCHANGED <<activities, currentProgress, readyEffectDue, logged>>
  /\ UNCHANGED <<envVars, fuzVars, entVars, genVars, pageVars, isGenerating, maxLogs, lastMessage, events,
                 delivered, ticks>>

\* useEffect(..., [isGenerating, activities.length])
LoggerReadyEffect ==
  /\ readyEffectDue
  /\ IF ~isGenerating /\ Len(activities) = 0
     THEN /\ activities' = <<systemLog>>
          /\ logged' = <<systemLog>> \o logged
          /\ readyEffectDue' = TRUE
     ELSE /\ activities' = activities
          /\ logged' = logged
          /\ readyEffectDue' = FALSE
  /\ UNCHANGED <<envVars, fuzVars, entVars, genVars, pageVars, isGenerating, maxLogs, lastMessage, events,
                 delivered, currentProgress, messageEffectDue, ticks>>

\* --------------------- RealTimeActivityLogger, second variant

\* the listener of the window's message events
handleMessage ==
  /\ component = LoggerV2
  /\ events < MaxEvents
  /\ events' = events + 1
  /\ \E event \in WindowEvents :
       IF event.parses /\ event.type = Str(typeActivityLog)
       THEN /\ activities' = SliceTo(<<newActivityLog(event)>> \o activities, maxLogs)
            /\ logged' = <<newActivityLog(event)>> \o logged
       ELSE UNCHANGED <<activities, logged>>
  /\ UNCHANGED <<envVars, fuzVars, entVars, genVars, pageVars, isGenerating, maxLogs, lastMessage,
                 delivered, currentProgress, messageEffectDue, readyEffectDue, ticks>>

\* a tick of setInterval(..., 3000): Math.random() > 0.7 decides whether
\* it adds one of the mockActivities
MockTick ==
  /\ component = LoggerV2
  /\ ticks < MaxTicks
  /\ ticks' = ticks + 1
  /\ \/ UNCHANGED <<activities, logged>>
     \/ \E i \in 1..Len(mockActivities) :
          /\ activities' = MockUpdated(mockActivities[i], activities, maxLogs)
          /\ logged' = <<mockActivities[i]>> \o logged
  /\ UNCHANGED <<envVars, fuzVars, entVars, genVars, pageVars, isGenerating, maxLogs, lastMessage,
                 events, delivered, currentProgress, messageEffectDue, readyEffectDue>>

\* ------------------------------------------------- useSystemStatus

RemoveAt(list, i) == SubSeq(list, 1, i - 1) \o SubSeq(list, i + 1, Len(list))

\* checkSystemStatus up to its first await, called through a callback
\* made by a render that saw isChecking = seen
checkSystemStatus(seen) ==
  IF seen
  THEN UNCHANGED <<isChecking, checks, checksStarted>>
  ELSE /\ isChecking' = TRUE
       /\ checks' = Append(checks, [pc |-> "health", newStatus |-> initialStatus])
       /\ checksStarted' = checksStarted + 1

\* the hook renders again after setIsChecking: checkSystemStatus is made
\* anew (useCallback on [isChecking]) and the effect that depends on it is due
SysRender ==
  /\ component = "useSystemStatus"
  /\ renderedIsChecking # isChecking
  /\ renderedIsChecking' = isChecking
  /\ statusEffectDue' = TRUE
  /\ UNCHANGED <<uploadVars, gridVars, edgVars, revVars, storeVars, checkInterval, status, isChecking, mounted, interval, checks,
                 checksStarted, forcedChecks>>

\* useEffect(..., [checkSystemStatus, checkInterval]): the cleanup of the
\* run before it, the check, the new timer
SysEffect ==
  /\ statusEffectDue
  /\ renderedIsChecking \/ checksStarted < MaxChecks
  /\ statusEffectDue' = FALSE
  /\ mounted' = TRUE
  /\ checkSystemStatus(renderedIsChecking)
  /\ interval' = IF checkInterval > 0
                 THEN [set |-> TRUE, isChecking |-> renderedIsChecking]
                 ELSE NoInterval
  /\ UNCHANGED <<uploadVars, gridVars, edgVars, revVars, storeVars, checkInterval, status, renderedIsChecking, forcedChecks>>

\* the timer fires
SysTick ==
  /\ interval.set
  /\ interval.isChecking \/ checksStarted < MaxChecks
  /\ checkSystemStatus(interval.isChecking)
  /\ UNCHANGED <<uploadVars, gridVars, edgVars, revVars, storeVars, checkInterval, status, renderedIsChecking, statusEffectDue,
                 mounted, interval, forcedChecks>>

\* forceCheck, as the last render returned it
forceCheck ==
  /\ component = "useSystemStatus"
  /\ forcedChecks < MaxChecks
  /\ renderedIsChecking \/ checksStarted < MaxChecks
  /\ forcedChecks' = forcedChecks + 1
  /\ checkSystemStatus(renderedIsChecking)
  /\ UNCHANGED <<uploadVars, gridVars, edgVars, revVars, storeVars, checkInterval, status, renderedIsChecking, statusEffectDue,
                 mounted, interval>>

\* ApiService.healthCheck settles: on to getAgentsStatus when the backend
\* is healthy, to the end of the function otherwise
SysHealthSettles ==
  \E i \in 1..Len(checks), r \in HealthResponses :
    /\ checks[i].pc = "health"
    /\ IF ~r.throws /\ r.healthy
       THEN /\ checks' = [checks EXCEPT ![i] = [pc |-> "agents", newStatus |-> newStatus(r)]]
            /\ UNCHANGED <<status, isChecking>>
       ELSE /\ status' = IF r.throws THEN errorStatus ELSE newStatus(r)
            /\ isChecking' = FALSE
            /\ checks' = RemoveAt(checks, i)
    /\ UNCHANGED <<uploadVars, gridVars, edgVars, revVars, storeVars, checkInterval, renderedIsChecking, statusEffectDue, mounted,
                   interval, checksStarted, forcedChecks>>

\* ApiService.getAgentsStatus settles: the rest of the function
SysAgentsSettles ==
  \E i \in 1..Len(checks), a \in AgentsResponses :
    /\ checks[i].pc = "agents"
    /\ status' = withAgents(checks[i].newStatus, a)
    /\ isChecking' = FALSE
    /\ checks' = RemoveAt(checks, i)
    /\ UNCHANGED <<uploadVars, gridVars, edgVars, revVars, storeVars, checkInterval, renderedIsChecking, statusEffectDue, mounted,
                   interval, checksStarted, forcedChecks>>

\* ------------------------------------------ data/DataReviewEditor

\* the ids of rows
IdsOf(rows) == {rows[i].id : i \in 1..Len(rows)}

\* data.filter(row => !selectedRows.has(row.id)) and its opposite
RECURSIVE RowsWhere(_, _, _)
RowsWhere(rows, ids, has) ==
  IF rows = <<>> THEN <<>>
  ELSE IF (Head(rows).id \in ids) = has
       THEN <<Head(rows)>> \o RowsWhere(Tail(rows), ids, has)
       ELSE RowsWhere(Tail(rows), ids, has)

\* addToHistory, as the render that saw the cursor at seen made it
addToHistory(seen, entry) ==
  /\ editHistory' = historyAfter(editHistory, seen, entry)
  /\ currentHistoryIndex' = currentHistoryIndex + 1

NoChanges(action) == HistoryEntry(action, <<>>, <<>>)

\* columns: the keys of the first row, the id left out
columnKeys(rows) == IF Len(rows) = 0 THEN <<>> ELSE SeqMap(EntryKey, rows[1].cells)

\* the search box
GridSetSearchTerm ==
  /\ component = "data/DataReviewEditor"
  /\ edits < MaxEdits
  /\ edits' = edits + 1
  /\ \E t \in SearchTerms \ {searchTerm} : searchTerm' = t
  /\ UNCHANGED <<uploadVars, sysVars, edgVars, revVars, storeVars, gridData, selectedRows, nlPrompt, isProcessingNL,
                 editHistory, currentHistoryIndex, nlRun, dataChanged, nextRowId>>

\* the natural-language box
GridSetNlPrompt ==
  /\ component = "data/DataReviewEditor"
  /\ edits < MaxEdits
  /\ edits' = edits + 1
  /\ \E t \in Prompts \ {nlPrompt} : nlPrompt' = t
  /\ UNCHANGED <<uploadVars, sysVars, edgVars, revVars, storeVars, gridData, selectedRows, searchTerm, isProcessingNL,
                 editHistory, currentHistoryIndex, nlRun, dataChanged, nextRowId>>

\* onSelectedRowsChange: the grid ticks or unticks a row it shows
GridSelectRow ==
  /\ component = "data/DataReviewEditor"
  /\ edits < MaxEdits
  /\ edits' = edits + 1
  /\ \E id \in IdsOf(filterData(gridData, searchTerm)) :
       selectedRows' = IF id \in selectedRows THEN selectedRows \ {id}
                       ELSE selectedRows \cup {id}
  /\ UNCHANGED <<uploadVars, sysVars, edgVars, revVars, storeVars, gridData, searchTerm, nlPrompt, isProcessingNL,
                 editHistory, currentHistoryIndex, nlRun, dataChanged, nextRowId>>

\* a cell of the grid is edited: the grid calls onRowsChange with the rows
\* it was given (filteredData), the edited one replaced
handleRowsChange ==
  /\ component = "data/DataReviewEditor"
  /\ edits < MaxEdits
  /\ edits' = edits + 1
  /\ LET shown == filterData(gridData, searchTerm)
     IN \E i \in 1..Len(shown), key \in Range(columnKeys(gridData)), v \in TypedValues :
          LET rows == [shown EXCEPT ![i] = With(shown[i], key, v)]
          IN /\ gridData' = rows
             /\ dataChanged' = SeqMap(rest, rows)
             /\ addToHistory(currentHistoryIndex,
                             HistoryEntry("edit_cells", gridData, rows))
  /\ UNCHANGED <<uploadVars, sysVars, edgVars, revVars, storeVars, selectedRows, searchTerm, nlPrompt, isProcessingNL,
                 nlRun, nextRowId>>

handleDeleteRows ==
  /\ component = "data/DataReviewEditor"
  /\ edits < MaxEdits
  /\ edits' = edits + 1
  /\ selectedRows # {}
  /\ gridData' = RowsWhere(gridData, selectedRows, FALSE)
  /\ selectedRows' = {}
  /\ addToHistory(currentHistoryIndex, NoChanges("delete_rows"))
  /\ UNCHANGED <<uploadVars, sysVars, edgVars, revVars, storeVars, searchTerm, nlPrompt, isProcessingNL, nlRun,
                 dataChanged, nextRowId>>

\* the new row has an empty text for every column of the first row
handleAddRow ==
  /\ component = "data/DataReviewEditor"
  /\ edits < MaxEdits
  /\ edits' = edits + 1
  /\ LET newRow == DataRow(RowId(nextRowId),
                           [c \in 1..Len(columnKeys(gridData)) |->
                              Entry(columnKeys(gridData)[c], EmptyString)])
     IN gridData' = Append(gridData, newRow)
  /\ nextRowId' = nextRowId + 1
  /\ addToHistory(currentHistoryIndex, NoChanges("add_row"))
  /\ UNCHANGED <<uploadVars, sysVars, edgVars, revVars, storeVars, selectedRows, searchTerm, nlPrompt, isProcessingNL,
                 nlRun, dataChanged>>

handleDuplicateRows ==
  /\ component = "data/DataReviewEditor"
  /\ edits < MaxEdits
  /\ edits' = edits + 1
  /\ selectedRows # {}
  /\ LET rowsToDuplicate == RowsWhere(gridData, selectedRows, TRUE)
         duplicatedRows == [i \in 1..Len(rowsToDuplicate) |->
                              DataRow(RowId(nextRowId + i - 1), rowsToDuplicate[i].cells)]
     IN /\ gridData' = gridData \o duplicatedRows
        /\ nextRowId' = nextRowId + Len(rowsToDuplicate)
  /\ selectedRows' = {}
  /\ addToHistory(currentHistoryIndex, NoChanges("duplicate_rows"))
  /\ UNCHANGED <<uploadVars, sysVars, edgVars, revVars, storeVars, searchTerm, nlPrompt, isProcessingNL, nlRun,
                 dataChanged>>

\* handleNaturalLanguageEdit up to its await
handleNaturalLanguageEdit ==
  /\ component = "data/DataReviewEditor"
  /\ edits < MaxEdits
  /\ edits' = edits + 1
  /\ ~isProcessingNL
  /\ trim(nlPrompt) # <<>>
  /\ isProcessingNL' = TRUE
  /\ nlRun' = [waiting |-> TRUE, data |-> gridData, nlPrompt |-> nlPrompt,
               seen |-> currentHistoryIndex]
  /\ UNCHANGED <<uploadVars, sysVars, edgVars, revVars, storeVars, gridData, selectedRows, searchTerm, nlPrompt,
                 editHistory, currentHistoryIndex, dataChanged, nextRowId>>

\* the two seconds are over: the rest of handleNaturalLanguageEdit, with
\* the data, the prompt and the addToHistory of the render that started it
NlEditResumes ==
  /\ nlRun.waiting
  /\ addToHistory(nlRun.seen, NoChanges("nl_edit"))
  /\ gridData' = nlNewData(nlRun.data, nlRun.nlPrompt)
  /\ nlPrompt' = <<>>
  /\ isProcessingNL' = FALSE
  /\ nlRun' = NoNlRun
  /\ UNCHANGED <<uploadVars, sysVars, edgVars, revVars, storeVars, selectedRows, searchTerm, dataChanged, edits,
                 nextRowId>>

\* handleUndo; reading the action of an entry that is not there throws
handleUndo ==
  /\ component = "data/DataReviewEditor"
  /\ edits < MaxEdits
  /\ edits' = edits + 1
  /\ currentHistoryIndex >= 0
  /\ IF currentHistoryIndex + 1 > Len(editHistory)
     THEN UNCHANGED <<gridData, currentHistoryIndex>>
     ELSE /\ gridData' = IF editHistory[currentHistoryIndex + 1].action = "edit_cells"
                         THEN editHistory[currentHistoryIndex + 1].old ELSE gridData
          /\ currentHistoryIndex' = currentHistoryIndex - 1
  /\ UNCHANGED <<uploadVars, sysVars, edgVars, revVars, storeVars, selectedRows, searchTerm, nlPrompt, isProcessingNL,
                 editHistory, nlRun, dataChanged, nextRowId>>

handleRedo ==
  /\ component = "data/DataReviewEditor"
  /\ edits < MaxEdits
  /\ edits' = edits + 1
  /\ currentHistoryIndex < Len(editHistory) - 1
  /\ currentHistoryIndex' = currentHistoryIndex + 1
  /\ gridData' = IF editHistory[currentHistoryIndex + 2].action = "edit_cells"
                 THEN editHistory[currentHistoryIndex + 2].new ELSE gridData
  /\ UNCHANGED <<uploadVars, sysVars, edgVars, revVars, storeVars, selectedRows, searchTerm, nlPrompt, isProcessingNL,
                 editHistory, nlRun, dataChanged, nextRowId>>

\* -------------------------------- EnhancedDataGenerator (the page)

\* a click or an input on the page, followed with the files of PageFiles
GenClick ==
  /\ component = "EnhancedDataGenerator"
  /\ file \in PageFiles
  /\ clicks < MaxClicks
  /\ clicks' = clicks + 1

\* the frame of the actions on the page
GenOthersUnchanged ==
  UNCHANGED <<component, file, lenientDates, drops, reads, fuzVars, entVars, logVars,
              sysVars, gridVars, revVars, storeVars, genRun>>

\* generation mode selector: Upload Sample Data
GenSelectFileMode ==
  /\ GenClick
  /\ generationMode' = "file"
  /\ currentStep' = "upload"
  /\ GenOthersUnchanged
  /\ UNCHANGED <<toast, sourceData, generatedData, generating, naturalLanguageDescription,
                 logs, genProgress, showLogger, genLastMessage, genEffectDue, genEvents,
                 generations>>

\* generation mode selector: Describe Data
GenSelectDescriptionMode ==
  /\ GenClick
  /\ generationMode' = "description"
  /\ currentStep' = "generate"
  /\ GenOthersUnchanged
  /\ UNCHANGED <<toast, sourceData, generatedData, generating, naturalLanguageDescription,
                 logs, genProgress, showLogger, genLastMessage, genEffectDue, genEvents,
                 generations>>

\* Change File, on the preview panel
GenChangeFile ==
  /\ GenClick
  /\ generationMode = "file" /\ currentStep = "preview"
  /\ currentStep' = "upload"
  /\ GenOthersUnchanged
  /\ UNCHANGED <<toast, sourceData, generatedData, generating, naturalLanguageDescription,
                 generationMode, logs, genProgress, showLogger, genLastMessage,
                 genEffectDue, genEvents, generations>>

\* the description box, on the description panel
GenSetDescription ==
  /\ GenClick
  /\ generationMode = "description" /\ currentStep = "generate"
  /\ \E t \in Descriptions \ {naturalLanguageDescription} :
       naturalLanguageDescription' = t
  /\ GenOthersUnchanged
  /\ UNCHANGED <<toast, sourceData, currentStep, generatedData, generating, generationMode,
                 logs, genProgress, showLogger, genLastMessage, genEffectDue, genEvents,
                 generations>>

\* setIsGenerating(true); setShowLogger(true); setLogs([]);
\* setCurrentProgress(0) and the first API call
GenStart(pc) ==
  /\ generating' = TRUE
  /\ showLogger' = TRUE
  /\ logs' = <<>>
  /\ genProgress' = 0
  /\ generations' = Append(generations, [pc |-> pc])

\* generateFromDescription up to its first await; its button is on the
\* description panel, disabled while generating or without a description
generateFromDescription ==
  /\ GenClick
  /\ generationMode = "description" /\ currentStep = "generate"
  /\ ~generating
  /\ trim(naturalLanguageDescription) # <<>>
  /\ GenStart("schema")
  /\ GenOthersUnchanged
  /\ UNCHANGED <<toast, sourceData, currentStep, generatedData, naturalLanguageDescription,
                 generationMode, genLastMessage, genEffectDue, genEvents>>

\* generateFromFile up to its await; its button is on the preview panel,
\* disabled while generating
generateFromFile ==
  /\ GenClick
  /\ generationMode = "file" /\ currentStep = "preview"
  /\ ~generating
  /\ IF Len(sourceData) = 0
     THEN /\ toast' = "error"
          /\ UNCHANGED <<generating, showLogger, logs, genProgress, generations>>
     ELSE /\ GenStart("data")
          /\ toast' = toast
  /\ GenOthersUnchanged
  /\ UNCHANGED <<sourceData, currentStep, generatedData, naturalLanguageDescription,
                 generationMode, genLastMessage, genEffectDue, genEvents>>

\* ApiService.generateSchemaFromDescription settles: on to
\* generateSyntheticData, or the catch
GenSchemaSettles ==
  \E i \in 1..Len(generations), resolves \in BOOLEAN :
    /\ generations[i].pc = "schema"
    /\ IF resolves
       THEN /\ generations' = [generations EXCEPT ![i] = [pc |-> "data"]]
            /\ UNCHANGED <<toast, generating>>
       ELSE /\ generations' = RemoveAt(generations, i)
            /\ toast' = "error"
            /\ generating' = FALSE
    /\ GenOthersUnchanged
    /\ UNCHANGED <<sourceData, currentStep, generatedData, naturalLanguageDescription,
                   generationMode, logs, genProgress, showLogger, genLastMessage,
                   genEffectDue, genEvents, clicks>>

\* ApiService.generateSyntheticData settles: setGeneratedData and 'edit',
\* or the catch
GenDataSettles ==
  \E i \in 1..Len(generations), resolves \in BOOLEAN :
    /\ generations[i].pc = "data"
    /\ generations' = RemoveAt(generations, i)
    /\ IF resolves
       THEN /\ generatedData' = "response"
            /\ currentStep' = "edit"
            /\ toast' = "success"
            /\ generating' = generating
       ELSE /\ toast' = "error"
            /\ generating' = FALSE
            /\ UNCHANGED <<generatedData, currentStep>>
    /\ GenOthersUnchanged
    /\ UNCHANGED <<sourceData, naturalLanguageDescription, generationMode, logs,
                   genProgress, showLogger, genLastMessage, genEffectDue, genEvents, clicks>>

\* Generate New, on the results panel
GenGenerateNew ==
  /\ GenClick
  /\ currentStep = "edit" /\ generatedData # "null"
  /\ currentStep' = "upload"
  /\ generatedData' = "null"
  /\ GenOthersUnchanged
  /\ UNCHANGED <<toast, sourceData, generating, naturalLanguageDescription, generationMode,
                 logs, genProgress, showLogger, genLastMessage, genEffectDue, genEvents,
                 generations>>

\* the socket delivers a message; a message that arrives before the effect
\* of the one before it has run takes its place
GenReceive ==
  /\ component = "EnhancedDataGenerator"
  /\ file \in PageFiles
  /\ genEvents < MaxEvents
  /\ genEvents' = genEvents + 1
  /\ \E m \in GenMessages : genLastMessage' = m
  /\ genEffectDue' = TRUE
  /\ GenOthersUnchanged
  /\ UNCHANGED <<toast, sourceData, currentStep, generatedData, generating,
                 naturalLanguageDescription, generationMode, logs, genProgress, showLogger,
                 generations, clicks>>

\* React.useEffect(..., [lastMessage]); a message that does not parse, or
\* an update without data, throws inside the try
GenMessageEffect ==
  /\ genEffectDue
  /\ genEffectDue' = FALSE
  /\ IF genLastMessage.parses /\ genLastMessage.type = "generation_update"
        /\ genLastMessage.hasData
     THEN /\ logs' = Append(logs, newLog(genLastMessage))
          /\ genProgress' = genLastMessage.progress
          /\ IF genLastMessage.status = "completed"
             THEN /\ generating' = FALSE
                  /\ currentStep' = "edit"
             ELSE UNCHANGED <<generating, currentStep>>
     ELSE UNCHANGED <<logs, genProgress, generating, currentStep>>
  /\ GenOthersUnchanged
  /\ UNCHANGED <<toast, sourceData, generatedData, naturalLanguageDescription,
                 generationMode, showLogger, genLastMessage, genEvents, generations, clicks>>

\* ------------------------------------- components/DataReviewEditor

\* an action of the user on the editor; nothing but the 'No data' card is
\* on the page when localData is empty
ReviewStep ==
  /\ component = "DataReviewEditor"
  /\ Len(localData) > 0
  /\ reviewSteps < MaxEdits
  /\ reviewSteps' = reviewSteps + 1

\* what no handler but handleCellSave changes
ReviewOthersUnchanged ==
  UNCHANGED <<uploadVars, sysVars, gridVars, edgVars, storeVars, dataProp, isEditing, cellSaves>>

\* the cell of row rowIndex and field key shows the input with the Save
\* and Cancel buttons
ShowsInput(rowIndex, key) ==
  editMode = "manual" /\ editingRow = rowIndex /\ editingField = key

\* the Save and Cancel buttons are on the page
InputOnPage ==
  \E i \in 1..Len(localData) :
    \E c \in 1..Len(rowObjects[localData[i]]) :
      ShowsInput(i - 1, rowObjects[localData[i]][c].key)

\* Manual Edit and Edit with AI buttons, Cancel of the prompt editor
SetEditMode ==
  /\ ReviewStep
  /\ \E mode \in {"manual", "prompt"} :
       editMode' = IF editMode = mode THEN "null" ELSE mode
  /\ ReviewOthersUnchanged
  /\ UNCHANGED <<rowObjects, editingRow, editingField, editValue, promptText, localData,
                 selectedRef, dataUpdated, promptEdits>>

\* a click on a cell that does not show the input, in manual mode
handleCellEdit ==
  /\ ReviewStep
  /\ editMode = "manual"
  /\ \E i \in 1..Len(localData) :
       \E c \in 1..Len(rowObjects[localData[i]]) :
         LET e == rowObjects[localData[i]][c]
         IN /\ ~ShowsInput(i - 1, e.key)
            /\ editingRow' = i - 1
            /\ editingField' = e.key
            /\ editValue' = StringOf(e.val)
            /\ selectedRef' = localData[i]
  /\ ReviewOthersUnchanged
  /\ UNCHANGED <<rowObjects, editMode, promptText, localData, dataUpdated, promptEdits>>

\* the input of the cell being edited
SetEditValue ==
  /\ ReviewStep
  /\ InputOnPage
  /\ \E v \in TypedValues : v.v # editValue /\ editValue' = v.v
  /\ ReviewOthersUnchanged
  /\ UNCHANGED <<rowObjects, editMode, editingRow, editingField, promptText, localData,
                 selectedRef, dataUpdated, promptEdits>>

\* updatedData[editingRow][editingField] = editValue writes into the row
\* object itself
handleCellSave ==
  /\ ReviewStep
  /\ InputOnPage
  /\ rowObjects' = [rowObjects EXCEPT ![localData[editingRow + 1]] =
                      SetProp(@, editingField, Str(editValue))]
  /\ localData' = localData
  /\ dataUpdated' = Update(localData)
  /\ editingRow' = NullRow
  /\ editingField' = NullField
  /\ editValue' = <<>>
  /\ cellSaves' = cellSaves + 1
  /\ UNCHANGED <<uploadVars, sysVars, gridVars, edgVars, storeVars, dataProp, isEditing>>
  /\ UNCHANGED <<editMode, promptText, selectedRef, promptEdits>>

handleCellCancel ==
  /\ ReviewStep
  /\ InputOnPage
  /\ editingRow' = NullRow
  /\ editingField' = NullField
  /\ editValue' = <<>>
  /\ ReviewOthersUnchanged
  /\ UNCHANGED <<rowObjects, editMode, promptText, localData, selectedRef, dataUpdated,
                 promptEdits>>

handleRowDelete ==
  /\ ReviewStep
  /\ editMode = "manual"
  /\ \E rowIndex \in 0..(Len(localData) - 1) :
       LET updatedData == RemoveAt(localData, rowIndex + 1)
       IN /\ localData' = updatedData
          /\ dataUpdated' = Update(updatedData)
  /\ ReviewOthersUnchanged
  /\ UNCHANGED <<rowObjects, editMode, editingRow, editingField, editValue, promptText,
                 selectedRef, promptEdits>>

\* Add Row, in manual mode: a new object with an empty text for every
\* key of the first row
handleAddRow2 ==
  /\ ReviewStep
  /\ editMode = "manual"
  /\ LET first == rowObjects[localData[1]]
         newRow == [c \in 1..Len(first) |-> Entry(first[c].key, EmptyString)]
     IN /\ rowObjects' = Append(rowObjects, newRow)
        /\ localData' = Append(localData, Len(rowObjects) + 1)
        /\ dataUpdated' = Update(localData')
  /\ ReviewOthersUnchanged
  /\ UNCHANGED <<editMode, editingRow, editingField, editValue, promptText, selectedRef,
                 promptEdits>>

\* the prompt box of the prompt editor
SetPromptText ==
  /\ ReviewStep
  /\ editMode = "prompt"
  /\ \E t \in Descriptions \ {promptText} : promptText' = t
  /\ ReviewOthersUnchanged
  /\ UNCHANGED <<rowObjects, editMode, editingRow, editingField, editValue, localData,
                 selectedRef, dataUpdated, promptEdits>>

\* Apply AI Changes, disabled without a prompt and while isEditing
handlePromptSubmit ==
  /\ ReviewStep
  /\ editMode = "prompt"
  /\ ~isEditing
  /\ trim(promptText) # <<>>
  /\ promptEdits' = promptEdits + 1
  /\ promptText' = <<>>
  /\ editMode' = "null"
  /\ ReviewOthersUnchanged
  /\ UNCHANGED <<rowObjects, editingRow, editingField, editValue, localData, selectedRef,
                 dataUpdated>>

\* Reset: the data prop, whose row objects the saves have written into
resetData ==
  /\ component = "DataReviewEditor"
  /\ Len(localData) > 0
  /\ reviewSteps < MaxEdits
  /\ reviewSteps' = reviewSteps + 1
  /\ localData' = dataProp
  /\ dataUpdated' = Update(dataProp)
  /\ ReviewOthersUnchanged
  /\ UNCHANGED <<rowObjects, editMode, editingRow, editingField, editValue, promptText,
                 selectedRef, promptEdits>>

\* ----------------------------------------------------- model store

\* an operation of the store is started
StoreStart ==
  /\ component = "modelStore"
  /\ opsStarted < MaxOps
  /\ opsStarted' = opsStarted + 1

StoreOthersUnchanged == UNCHANGED <<uploadVars, sysVars, gridVars, edgVars, revVars>>

\* configureModelAtom up to await ApiService.configureAI(...)
configureModelAtom ==
  /\ StoreStart
  /\ isConfiguringModelAtom' = TRUE
  /\ \E p \in Providers : ops' = Append(ops, Op("configure", p, "configureAI"))
  /\ StoreOthersUnchanged
  /\ UNCHANGED <<modelConfigAtom, modelHealthAtom, isTestingModelAtom>>

\* ApiService.configureAI settles: on to await testAIConnection(), or the
\* catch and the finally
ConfigureAISettles ==
  \E i \in 1..Len(ops) :
    /\ ops[i].awaits = "configureAI"
    /\ \/ /\ isTestingModelAtom' = TRUE
          /\ ops' = [ops EXCEPT ![i].awaits = "testAIConnection"]
          /\ UNCHANGED <<modelHealthAtom, isConfiguringModelAtom>>
       \/ /\ modelHealthAtom' = "offline"
          /\ isConfiguringModelAtom' = FALSE
          /\ isTestingModelAtom' = FALSE
          /\ ops' = RemoveAt(ops, i)
    /\ StoreOthersUnchanged
    /\ UNCHANGED <<modelConfigAtom, opsStarted>>

\* testAIConnection of configureModelAtom settles
ConfigureTestSettles ==
  \E i \in 1..Len(ops) :
    /\ ops[i].name = "configure"
    /\ ops[i].awaits = "testAIConnection"
    /\ \/ /\ modelConfigAtom' = fullConfig(ops[i].provider)
          /\ modelHealthAtom' = "healthy"
       \/ /\ modelHealthAtom' = "offline"
          /\ UNCHANGED modelConfigAtom
    /\ isConfiguringModelAtom' = FALSE
    /\ isTestingModelAtom' = FALSE
    /\ ops' = RemoveAt(ops, i)
    /\ StoreOthersUnchanged
    /\ UNCHANGED opsStarted

\* testModelConnectionAtom up to await ApiService.testAIConnection(); it
\* throws before it sets anything when there is no model
testModelConnectionAtom ==
  /\ StoreStart
  /\ IF modelConfigAtom = NoModel
     THEN UNCHANGED <<isTestingModelAtom, ops>>
     ELSE /\ isTestingModelAtom' = TRUE
          /\ ops' = Append(ops, Op("test", modelConfigAtom.provider, "testAIConnection"))
  /\ StoreOthersUnchanged
  /\ UNCHANGED <<modelConfigAtom, modelHealthAtom, isConfiguringModelAtom>>

\* testAIConnection of testModelConnectionAtom settles
TestSettles ==
  \E i \in 1..Len(ops) :
    /\ ops[i].name = "test"
    /\ modelHealthAtom' \in {"healthy", "offline"}
    /\ isTestingModelAtom' = FALSE
    /\ ops' = RemoveAt(ops, i)
    /\ StoreOthersUnchanged
    /\ UNCHANGED <<modelConfigAtom, isConfiguringModelAtom, opsStarted>>

removeModelAtom ==
  /\ StoreStart
  /\ modelConfigAtom' = NoModel
  /\ modelHealthAtom' = "offline"
  /\ StoreOthersUnchanged
  /\ UNCHANGED <<isConfiguringModelAtom, isTestingModelAtom, ops>>

\* ---------------------------------------------------- specification

Next ==
  \/ FuzOnDrop
  \/ FuzFileRead
  \/ FuzResume
  \/ FuzFinish
  \/ RemoveFile
  \/ EntOnDrop
  \/ EntFileRead
  \/ EntResume
  \/ EntTimeout
  \/ GenOnDrop
  \/ GenFileRead
  \/ GenResume
  \/ LoggerReceive
  \/ LoggerMessageEffect
  \/ LoggerReadyEffect
  \/ SysRender
  \/ SysEffect
  \/ SysTick
  \/ forceCheck
  \/ SysHealthSettles
  \/ SysAgentsSettles
  \/ GridSetSearchTerm
  \/ GridSetNlPrompt
  \/ GridSelectRow
  \/ handleRowsChange
  \/ handleDeleteRows
  \/ handleAddRow
  \/ handleDuplicateRows
  \/ handleNaturalLanguageEdit
  \/ NlEditResumes
  \/ handleUndo
  \/ handleRedo
  \/ GenSelectFileMode
  \/ GenSelectDescriptionMode
  \/ GenChangeFile
  \/ GenSetDescription
  \/ generateFromDescription
  \/ generateFromFile
  \/ GenSchemaSettles
  \/ GenDataSettles
  \/ GenGenerateNew
  \/ GenReceive
  \/ GenMessageEffect
  \/ handleMessage
  \/ MockTick
  \/ SetEditMode
  \/ handleCellEdit
  \/ SetEditValue
  \/ handleCellSave
  \/ handleCellCancel
  \/ handleRowDelete
  \/ handleAddRow2
  \/ SetPromptText
  \/ handlePromptSubmit
  \/ resetData
  \/ configureModelAtom
  \/ ConfigureAISettles
  \/ ConfigureTestSettles
  \/ testModelConnectionAtom
  \/ TestSettles
  \/ removeModelAtom

Spec == Init /\ [][Next]_vars

\* ============================================================ claims

SupportedExtensions == {extCsv, extXlsx, extXls, extJson}

\* the lowercase extension of a name: the text after its last dot, and
\* none (the empty text) for a name without a dot
ExtensionOf(name) ==
  IF LastDot(name) = 0 THEN <<>> ELSE toLowerCase(TextAfterLastDot(name))

\* the rows FileUploadZone has passed to onFileUpload
FuzUploads == SeqFilter(LAMBDA call : call.cb = "onFileUpload", fuzCalls)

\* a row (an object with fields) that holds some value other than '',
\* null and undefined
HasNonEmptyValue(row) ==
  \E v \in Range(ObjectValues(row)) : v \notin {EmptyString, Null, Undefined}

IsRecordRow(x) == x.k = "object" /\ x.o # <<>>

KeySet(row) == Range(ObjectKeys(row))

\* every list of rows handed to a caller, whichever the component
DeliveredTables ==
  {FuzUploads[i].data : i \in 1..Len(FuzUploads)}
  \cup {entCalls[i].data : i \in 1..Len(entCalls)}
  \cup (IF currentStep = "preview" THEN {sourceData} ELSE {})

\* the files that can be dropped
DroppedFiles == {file, otherFile}

\* the results processFile has returned so far
FuzReturned ==
  (IF fuzRun.pc = "settled" THEN {fuzRun.result} ELSE {})
  \cup Range(fuzRun.results) \cup Range(uploadedFiles)

\* the invocations of EnterpriseUploadZone.onDrop whose parseFile has settled
EntSettled == {entRuns[i] : i \in {j \in 1..Len(entRuns) : entRuns[j].pc # "reading"}}

\* the invocation of EnhancedDataGenerator.onDrop whose parseFile has settled
GenSettled == IF genRun.pc = "settled" THEN {genRun} ELSE {}

\* the lists of rows of a file that have been handed to a caller
TablesOf(f) ==
  {FuzUploads[i].data : i \in {j \in 1..Len(FuzUploads) : FuzUploads[j].file = f}}
  \cup {entCalls[i].data : i \in {j \in 1..Len(entCalls) : entCalls[j].file = f}}
  \cup (IF currentStep = "preview" /\ f = file THEN {sourceData} ELSE {})

\* the file has failed wherever its parse has settled, and nothing of it
\* has reached a caller
FailedEverywhere(f) ==
  /\ \A r \in FuzReturned : r.file = f => r.status = "error" /\ r.data = <<>>
  /\ \A run \in EntSettled : run.file = f => run.result.settled = "rejected"
  /\ \A run \in GenSettled : run.file = f => run.result.settled = "rejected"
  /\ TablesOf(f) = {}

\* ---- C1

NonTabularJson(f) ==
  /\ ExtensionOf(f.name) = extJson
  /\ f.content.fmt = "json"
  /\ ~f.content.wellFormed \/ f.content.root.k \notin {"array", "object"}

\* C1: a JSON file whose text is malformed, or whose root is neither an
\* array nor an object, fails to parse in each of the three
\* implementations, and none of them delivers rows for it.
C1_NonTabularJsonFails ==
  \A f \in DroppedFiles : NonTabularJson(f) => FailedEverywhere(f)

\* ---- C2

\* C2: no row whose fields are all '', null or undefined is ever handed to
\* a caller.
C2_NoBlankRowDelivered ==
  \A table \in DeliveredTables :
    \A i \in 1..Len(table) : IsRecordRow(table[i]) => HasNonEmptyValue(table[i])

\* ---- C3

\* the rows of a table that are objects with fields
RecordRows(table) == SeqFilter(IsRecordRow, table)

\* C3: in every successful result the rows share one key set, and the
\* header list is as long as the key list of every row.
C3_UniformRows ==
  /\ \A n \in 1..Len(FuzUploads) :
       \A row \in Range(RecordRows(FuzUploads[n].data)) :
         /\ Len(ObjectKeys(row)) = Len(FuzUploads[n].headers)
         /\ KeySet(row) = KeySet(RecordRows(FuzUploads[n].data)[1])
  /\ \A n \in 1..Len(entCalls) :
       \A row \in Range(RecordRows(entCalls[n].data)) :
         /\ Len(ObjectKeys(row)) = Len(entCalls[n].metadata.columns)
         /\ KeySet(row) = KeySet(RecordRows(entCalls[n].data)[1])

\* ---- C4

\* C4: a parse that yields zero rows, or an empty header list, is a
\* failure: no caller ever receives an empty table or an empty header list.
C4_EmptyResultFails ==
  /\ \A table \in DeliveredTables : table # <<>>
  /\ \A n \in 1..Len(FuzUploads) : FuzUploads[n].headers # <<>>
  /\ \A n \in 1..Len(entCalls) : entCalls[n].metadata.columns # <<>>
  /\ fuzRun.pc = "settled" /\ fuzRun.result.status = "success" =>
       fuzRun.result.data # <<>> /\ fuzRun.result.headers # <<>>
  /\ \A run \in EntSettled :
       run.result.settled = "resolved" =>
         run.result.data # <<>> /\ run.result.metadata.columns # <<>>
  /\ genRun.pc = "settled" /\ genRun.result.settled = "resolved" =>
       genRun.result.data # <<>>

\* ---- C5

\* the result of a parse is an unsupported-format failure, nothing was
\* read and nothing was delivered
FailsUnsupportedUnread(f) ==
  /\ f \notin reads
  /\ fuzRun.pc = "reading" => Head(fuzRun.queue) # f
  /\ \A i \in 1..Len(entRuns) : entRuns[i].file = f => entRuns[i].pc # "reading"
  /\ genRun.pc = "reading" => genRun.file # f
  /\ \A r \in FuzReturned :
       r.file = f => Head(r.error) = "Unsupported file type: "
  /\ \A run \in EntSettled :
       run.file = f =>
         run.result.error =
           <<"Unsupported file format. Please use CSV, Excel, or JSON files.">>
  /\ \A run \in GenSettled :
       run.file = f =>
         run.result.error =
           <<"Unsupported file format. Please use CSV, Excel, or JSON files.">>
  /\ FailedEverywhere(f)

\* C5 as stated: a file whose extension is not csv, xlsx, xls or json,
\* a name without a dot having no extension, fails as unsupported
\* without being read and without rows.
C5_UnsupportedExtensionFails ==
  \A f \in DroppedFiles :
    ExtensionOf(f.name) \notin SupportedExtensions => FailsUnsupportedUnread(f)

\* C5 as amended: a file fails as unsupported, without being read and
\* without rows, when the lowercase text after the last dot of its name,
\* the whole name when it has no dot, is not csv, xlsx, xls or json.
C5_UnsupportedSuffixFails ==
  \A f \in DroppedFiles :
    toLowerCase(TextAfterLastDot(f.name)) \notin SupportedExtensions =>
      FailsUnsupportedUnread(f)

\* an unsupported file was dropped and its failure reported
C5_Witness ==
  /\ toLowerCase(TextAfterLastDot(file.name)) \notin SupportedExtensions
  /\ \/ \E i \in 1..Len(fuzCalls) : fuzCalls[i].cb = "onError" /\ fuzCalls[i].file = file
     \/ \E i \in 1..Len(entRuns) : entRuns[i].file = file /\ entRuns[i].pc = "done"

\* ---- C6

WholeResult(r) ==
  \/ r.status = "success" /\ r.data # <<>> /\ r.headers # <<>> /\ r.error = <<>>
  \/ r.status = "error" /\ r.data = <<>> /\ r.headers = <<>> /\ r.error # <<>>

\* every result processFile has returned is whole, and so is every table
\* handed to onFileUpload
NoPartialResult ==
  /\ fuzRun.pc = "settled" => WholeResult(fuzRun.result)
  /\ \A i \in 1..Len(fuzRun.results) : WholeResult(fuzRun.results[i])
  /\ \A i \in 1..Len(uploadedFiles) : WholeResult(uploadedFiles[i])
  /\ \A i \in 1..Len(FuzUploads) :
       FuzUploads[i].data # <<>> /\ FuzUploads[i].headers # <<>>

\* the step that resumes after a failed processFile calls no onFileUpload
NoUploadOfFailedFile ==
  fuzRun.pc = "settled" /\ fuzRun.result.status = "error" =>
    Len(SeqFilter(LAMBDA call : call.cb = "onFileUpload", fuzCalls'))
      = Len(FuzUploads)

\* C6: processFile returns either a success with rows and headers or an
\* error with neither and a message, and onFileUpload is never called for
\* a failed file.
C6_NoPartialTable == []NoPartialResult /\ [][NoUploadOfFailedFile]_vars

\* a file that was read and parsed into rows, and then failed for want of
\* headers, has been processed: its entry holds no rows and only onError
\* was called
C6_Witness ==
  /\ component = "FileUploadZone"
  /\ Len(uploadedFiles) > 0
  /\ uploadedFiles[1].file \in reads
  /\ uploadedFiles[1].error = <<"Could not detect column headers">>
  /\ uploadedFiles[1].data = <<>>
  /\ fuzCalls # <<>> /\ FuzUploads = <<>>

\* ---- C7

\* the tag the stated precedence gives a value
ExpectedTag(value) ==
  CASE value.k = "number" -> <<"number">>
    [] value.k = "boolean" -> <<"boolean">>
    [] value.k = "string" /\ "@" \in Range(value.v) -> <<"email">>
    [] value.k = "string" /\ "@" \notin Range(value.v) /\ DateParses(value.v) -> <<"date">>
    [] OTHER -> <<"string">>

ExpectedTypes(row) ==
  [i \in 1..Len(ObjectEntries(row)) |->
     Entry(ObjectEntries(row)[i].key, Str(ExpectedTag(ObjectEntries(row)[i].val)))]

ExampleTypes ==
  Obj(<<Entry(<<"age">>, Str(<<"number">>)), Entry(<<"active">>, Str(<<"boolean">>)),
        Entry(<<"email">>, Str(<<"email">>)), Entry(<<"joined">>, Str(<<"date">>)),
        Entry(<<"note">>, Str(<<"string">>))>>)

\* the results parseFile has resolved with: the one in hand and those
\* already passed to onFileUpload
EntResolved ==
  {[file |-> run.file, data |-> run.result.data, metadata |-> run.result.metadata] :
     run \in {r \in EntSettled : r.result.settled = "resolved"}}
  \cup Range(entCalls)

\* C7: each field of the first row is tagged number, boolean, email, date
\* or string by the fixed precedence, and the example row gets
\* {age: number, active: boolean, email: email, joined: date, note: string}.
C7_TypePrecedence ==
  \A r \in EntResolved :
    Len(r.data) > 0 =>
      /\ r.metadata.detectedTypes.o = ExpectedTypes(r.data[1])
      /\ r.data[1] = rowExample => r.metadata.detectedTypes = ExampleTypes

\* the example row has been analysed and delivered
C7_Witness ==
  \E i \in 1..Len(entCalls) :
    /\ Len(entCalls[i].data) > 0
    /\ entCalls[i].data[1] = rowExample
    /\ entCalls[i].metadata.detectedTypes = ExampleTypes

\* ---- C8

\* the table cut down to its first row
FirstRowAlone(data) == IF Len(data) > 0 THEN <<data[1]>> ELSE <<>>

\* C8: the type map is the one of the first row alone, whatever follows
\* it, and its keys are the keys of the first row.
C8_FirstRowOnly ==
  \A r \in EntResolved :
    /\ r.metadata.detectedTypes = analyzeDataTypes(FirstRowAlone(r.data))
    /\ Len(r.data) > 0 =>
         ObjectKeys(r.metadata.detectedTypes) = ObjectKeys(r.data[1])
    /\ Len(r.data) = 0 => r.metadata.detectedTypes = Obj(<<>>)

\* a table was delivered whose second row has other keys and other kinds
\* of values than its first
C8_Witness ==
  \E i \in 1..Len(entCalls) :
    /\ Len(entCalls[i].data) > 1
    /\ IsRecordRow(entCalls[i].data[1]) /\ IsRecordRow(entCalls[i].data[2])
    /\ KeySet(entCalls[i].data[1]) # KeySet(entCalls[i].data[2])
    /\ analyzeDataTypes(<<entCalls[i].data[2]>>) # entCalls[i].metadata.detectedTypes

\* ---- C9

TabularJson(f) ==
  /\ ExtensionOf(f.name) = extJson
  /\ f.content.fmt = "json" /\ f.content.wellFormed
  /\ f.content.root.k \in {"array", "object"}

\* C9: type inference never makes a parse fail: a well-formed JSON file
\* whose root is an array or an object is resolved by
\* EnterpriseUploadZone.parseFile, whatever its first element.
C9_InferenceNeverFails ==
  \A run \in EntSettled : TabularJson(run.file) => run.result.settled = "resolved"

\* ---- C10

ObjectRootJson(f) ==
  /\ ExtensionOf(f.name) = extJson
  /\ f.content.fmt = "json" /\ f.content.wellFormed
  /\ f.content.root.k = "object"

\* C10 as stated: a JSON file whose root is a single object parses, in
\* each implementation, to the one-element list holding that object.
C10_ObjectRootYieldsOneRow ==
  \A f \in DroppedFiles :
    ObjectRootJson(f) =>
      /\ \A r \in FuzReturned :
           r.file = f => r.status = "success" /\ r.data = <<f.content.root>>
      /\ \A run \in EntSettled \cup GenSettled :
           run.file = f =>
             run.result.settled = "resolved" /\ run.result.data = <<f.content.root>>
      /\ \A table \in TablesOf(f) : table = <<f.content.root>>

\* C10 as amended: a JSON file whose root is a single object with at least
\* one key parses, in each implementation, to the one-element list holding
\* that object; for the object without keys this holds of
\* EnterpriseUploadZone and EnhancedDataGenerator.
C10_KeyedObjectRootYieldsOneRow ==
  \A f \in DroppedFiles :
    ObjectRootJson(f) =>
      /\ \A r \in FuzReturned :
           r.file = f /\ f.content.root.o # <<>> =>
             r.status = "success" /\ r.data = <<f.content.root>>
      /\ \A run \in EntSettled \cup GenSettled :
           run.file = f =>
             run.result.settled = "resolved" /\ run.result.data = <<f.content.root>>
      /\ \A table \in TablesOf(f) : table = <<f.content.root>>

\* FileUploadZone has delivered the single row of an object root
C10_Witness ==
  /\ ObjectRootJson(file)
  /\ Len(FuzUploads) > 0
  /\ FuzUploads[1].data = <<file.content.root>>
  /\ FuzUploads[1].headers = ObjectKeys(file.content.root)

\* ---- C11

\* the value a row holds under a key; undefined when it has no such key
FieldOf(row, key) ==
  IF \E e \in Range(ObjectEntries(row)) : e.key = key
  THEN (CHOOSE e \in Range(ObjectEntries(row)) : e.key = key).val
  ELSE Undefined

CleanHeader(h) == h # <<>> /\ trim(h) = h

\* the columns of a sheet whose header cell, trimmed, is a name no other
\* header cell has
NamedColumns(grid) ==
  {j \in 1..Len(grid[1]) :
     /\ trim(CellOrDefval(grid[1][j]).v) # <<>>
     /\ \A i \in 1..Len(grid[1]) :
          i # j => trim(CellOrDefval(grid[1][i]).v) # trim(CellOrDefval(grid[1][j]).v)}

\* the row holds, under each named column's header, the cell the sheet
\* row has in that column ('' for an empty cell)
RowOfSheetRow(row, grid, cells) ==
  \A j \in NamedColumns(grid) :
    FieldOf(row, trim(CellOrDefval(grid[1][j]).v))
      = OrElse(IF j <= Len(cells) THEN cells[j] ELSE Undefined, EmptyString)

\* C11: every header of a successful result is a non-empty text without
\* leading or trailing whitespace, and every row of a parsed sheet holds
\* under each header the cell of that header's own column.
C11_HeadersTrimmedAndAligned ==
  /\ \A r \in FuzReturned :
       r.status = "success" => \A h \in Range(r.headers) : CleanHeader(h)
  /\ \A r \in EntResolved : \A h \in Range(r.metadata.columns) : CleanHeader(h)
  /\ \A r \in FuzReturned :
       r.status = "success" /\ r.file.content.fmt = "xlsx" =>
         \A row \in Range(r.data) :
           \E i \in 2..Len(r.file.content.grid) :
             RowOfSheetRow(row, r.file.content.grid, r.file.content.grid[i])

\* ---- C12

\* a data line without a value: the empty line, or a line of empty fields
IsBlankLine(line) == \A j \in 1..Len(line) : line[j] = <<>>

NonBlankDataLines(lines) == {i \in 2..Len(lines) : ~IsBlankLine(lines[i])}

\* a CSV file with a header row of distinct names, data lines of as many
\* fields as the header (or empty), one of them at least holding a value
WellFormedCsv(f) ==
  /\ ExtensionOf(f.name) = extCsv
  /\ f.content.fmt = "csv" /\ f.content.wellFormed
  /\ Len(f.content.lines) > 0
  /\ \A j \in 1..Len(f.content.lines[1]) :
       /\ trim(f.content.lines[1][j]) # <<>>
       /\ \A k \in 1..Len(f.content.lines[1]) :
            k # j => trim(f.content.lines[1][k]) # trim(f.content.lines[1][j])
  /\ \A i \in 2..Len(f.content.lines) :
       IsEmptyLine(f.content.lines[i])
         \/ Len(f.content.lines[i]) = Len(f.content.lines[1])
  /\ NonBlankDataLines(f.content.lines) # {}

\* C12: a well-formed CSV file with a header row and a data row parses to
\* as many rows as it has non-blank data lines, under the trimmed field
\* names of its first line, in their order.
C12_CsvRowsAndHeaders ==
  \A f \in DroppedFiles :
    WellFormedCsv(f) =>
      /\ \A r \in FuzReturned :
           r.file = f =>
             /\ r.status = "success"
             /\ Len(r.data) = Cardinality(NonBlankDataLines(f.content.lines))
             /\ r.headers = SeqMap(trim, f.content.lines[1])
      /\ \A run \in EntSettled :
           run.file = f =>
             /\ run.result.settled = "resolved"
             /\ Len(run.result.data) = Cardinality(NonBlankDataLines(f.content.lines))
             /\ run.result.metadata.rows = Len(run.result.data)
             /\ run.result.metadata.columns = SeqMap(trim, f.content.lines[1])

\* ---- C13

ValueText(x) == x.v

\* the table {a: 1, b: 2}, {a: 3, b: 4}, the values compared by their text
IsExampleTable(data) ==
  /\ Len(data) = 2
  /\ \A i \in 1..2 : ObjectKeys(data[i]) = <<sA, sB>>
  /\ SeqMap(ValueText, ObjectValues(data[1])) = <<sOne, sTwo>>
  /\ SeqMap(ValueText, ObjectValues(data[2])) = <<<<"3">>, <<"4">>>>

\* C13: the CSV text "a,b\n1,2\n,,\n3,4" parses to exactly the two rows
\* {a: 1, b: 2} and {a: 3, b: 4}; its line of empty fields neither becomes
\* a row nor makes the parse fail.
C13_BlankLineExample ==
  \A f \in DroppedFiles :
    ExtensionOf(f.name) = extCsv /\ f.content = CsvContent(csvExample) =>
      /\ \A r \in FuzReturned :
           r.file = f => r.status = "success" /\ IsExampleTable(r.data)
      /\ \A run \in EntSettled :
           run.file = f =>
             run.result.settled = "resolved" /\ IsExampleTable(run.result.data)

\* ---- C14

\* the file goes to the CSV branch
IsCsvFile(f) ==
  toLowerCase(TextAfterLastDot(f.name)) = extCsv /\ f.content.fmt = "csv"

\* the message of a failed CSV parse whose first reported error is e
CsvFailure(e) == <<"CSV parsing error: ", e>>

\* C14: when the parser reports an error for a CSV file, the parse fails
\* with the message of the first error reported and returns no rows, and
\* no rows of the file reach a caller.
C14_CsvErrorFailsWhole ==
  \A f \in DroppedFiles :
    IsCsvFile(f) =>
      /\ \A r \in FuzReturned :
           r.file = f /\ PapaParse(f.content.lines, TRUE, TRUE).errors # <<>> =>
             /\ r.status = "error" /\ r.data = <<>> /\ r.headers = <<>>
             /\ r.error = CsvFailure(PapaParse(f.content.lines, TRUE, TRUE).errors[1])
             /\ TablesOf(f) = {}
      /\ \A run \in EntSettled :
           run.file = f /\ PapaParse(f.content.lines, TRUE, FALSE).errors # <<>> =>
             /\ run.result.settled = "rejected" /\ run.result.data = <<>>
             /\ run.result.error = CsvFailure(PapaParse(f.content.lines, TRUE, FALSE).errors[1])
             /\ TablesOf(f) = {}
      /\ \A run \in GenSettled :
           run.file = f /\ PapaParse(f.content.lines, FALSE, FALSE).errors # <<>> =>
             /\ run.result.settled = "rejected" /\ run.result.data = <<>>
             /\ run.result.error = CsvFailure(PapaParse(f.content.lines, FALSE, FALSE).errors[1])
             /\ TablesOf(f) = {}

\* a CSV file with a line the parser accepts and a line it reports has
\* been processed by FileUploadZone: onError was called with the message
\* of the report, onFileUpload was not called
C14_Witness ==
  \E i \in 1..Len(fuzCalls) :
    /\ fuzCalls[i].cb = "onError"
    /\ fuzCalls[i].file = file
    /\ IsCsvFile(file)
    /\ fuzCalls[i].error \in {CsvFailure("Too many fields"), CsvFailure("Too few fields")}
    /\ \E n \in 2..Len(file.content.lines) :
         /\ Len(file.content.lines[n]) = Len(file.content.lines[1])
         /\ ~IsBlankLine(file.content.lines[n])
    /\ \A j \in 1..Len(FuzUploads) : FuzUploads[j].file # file

\* ---- C15

\* C15: two parses of the same file return the same result: the same rows
\* and headers, and in EnterpriseUploadZone the same metadata, whenever
\* and in whatever order the parses are made.
C15_ParseDeterministic ==
  /\ \A r1, r2 \in FuzReturned : r1.file = r2.file => r1 = r2
  /\ \A run1, run2 \in EntSettled :
       run1.file = run2.file =>
         /\ run1.result.settled = run2.result.settled
         /\ run1.result.data = run2.result.data
         /\ run1.result.metadata = run2.result.metadata
  /\ \A c1, c2 \in Range(entCalls) :
       c1.file = c2.file => c1.data = c2.data /\ c1.metadata = c2.metadata

\* ---- C16

\* a change of processingStatus is a drop taking it to 'parsing' (from
\* 'idle', or from 'complete' when a file was processed before), a
\* resolved parse taking 'parsing' to 'analyzing', the end of the analysis
\* taking 'analyzing' to 'complete', or a failure taking it back to 'idle'
StatusChangeAllowed ==
  processingStatus' # processingStatus =>
    \/ processingStatus \in {"idle", "complete"} /\ processingStatus' = "parsing"
    \/ processingStatus = "parsing" /\ processingStatus' = "analyzing"
    \/ processingStatus = "analyzing" /\ processingStatus' = "complete"
    \/ processingStatus' = "idle"

\* onFileUpload is called in the step that makes the status 'complete'
UploadOnlyOnComplete == entCalls' # entCalls => processingStatus' = "complete"

\* C16: in EnterpriseUploadZone every change of processingStatus is one of
\* the changes idle -> parsing, parsing -> analyzing, analyzing -> complete
\* or a return to idle on failure; the status is never another value, and
\* onFileUpload is called only on reaching 'complete'.
C16_StatusTransitions ==
  [][/\ StatusChangeAllowed
     /\ UploadOnlyOnComplete
     /\ processingStatus' \in {"idle", "parsing", "analyzing", "complete"}]_vars

\* ---- C17

FileOf(x) == x.file

\* the invocation of onDrop in flight has settled its first files, in the
\* order of its argument, has made one callback for each of them, in that
\* order, and has called processFile for none of the files after the one
\* it is awaiting
OneFileAtATime ==
  fuzRun.pc # "idle" =>
    /\ Len(fuzRun.results) <= Len(fuzRun.accepted)
    /\ fuzRun.queue = SubSeq(fuzRun.accepted, Len(fuzRun.results) + 1, Len(fuzRun.accepted))
    /\ SeqMap(FileOf, fuzRun.results) = SubSeq(fuzRun.accepted, 1, Len(fuzRun.results))
    /\ SeqMap(FileOf, fuzRun.calls) = SubSeq(fuzRun.accepted, 1, Len(fuzRun.results))
    /\ fuzRun.pc = "settled" => fuzRun.result.file = Head(fuzRun.queue)
    /\ fuzRun.pc = "finish" => fuzRun.queue = <<>>

\* processFile is called for a file in a step that leaves no earlier
\* file of the invocation unsettled or without its callback
StartsAfterCallback ==
  fuzRun'.pc \in {"reading", "settled"} /\ fuzRun'.queue # fuzRun.queue =>
    /\ fuzRun.pc \in {"idle", "settled"}
    /\ Len(fuzRun'.calls) = Len(fuzRun'.results)
    /\ Len(fuzRun'.results) = Len(fuzRun'.accepted) - Len(fuzRun'.queue)

\* C17: within one invocation of FileUploadZone.onDrop the files are
\* processed one at a time, each after the one before it has settled and
\* its onFileUpload or onError call has been made, so the callbacks are
\* made in the order of the drop.
C17_OneFileAtATime == []OneFileAtATime /\ [][StartsAfterCallback]_vars

\* two files were dropped together, the first has failed and onError was
\* called for it, and the second is being read
C17_Witness ==
  /\ Len(fuzRun.accepted) = 2
  /\ fuzRun.pc = "reading" /\ Head(fuzRun.queue) = fuzRun.accepted[2]
  /\ Len(fuzRun.calls) = 1
  /\ fuzRun.calls[1].cb = "onError" /\ fuzRun.calls[1].file = fuzRun.accepted[1]

\* ---- C18

\* the invocation of onDrop made for the latest drop of a file
LatestDrop == Len(entRuns)

\* a step of an earlier invocation than the latest leaves processingStatus
\* alone and calls no onFileUpload
LateResolutionIgnored ==
  \A i \in 1..Len(entRuns) :
    i # LatestDrop /\ entRuns'[i] # entRuns[i] /\ entRuns[i].pc \in {"settled", "waiting"} =>
      processingStatus' = processingStatus /\ entCalls' = entCalls

\* whenever the status is 'complete', the rows last passed to onFileUpload
\* are those of the file shown as uploaded
CompleteShowsLatest ==
  processingStatus = "complete" =>
    /\ entCalls # <<>>
    /\ entCalls[Len(entCalls)].file = uploadedFile

\* C18: when a file is dropped on EnterpriseUploadZone while an earlier
\* drop is still being parsed or analysed, the late resolution of the
\* earlier drop changes neither processingStatus nor what onFileUpload has
\* received, so under 'complete' the delivered rows are those of the file
\* shown.
C18_LateResolutionIgnored == []CompleteShowsLatest /\ [][LateResolutionIgnored]_vars

\* ---- C19

\* the upload list without its i-th entry, the others in their order
WithoutEntry(list, i) ==
  [j \in 1..(Len(list) - 1) |-> IF j < i THEN list[j] ELSE list[j + 1]]

\* a step leaves the upload list alone, or removes one entry by
\* removeFile, or ends a drop whose results take the place of the entries
\* of the earlier parses
UploadListStep ==
  \/ uploadedFiles' = uploadedFiles
  \/ /\ fuzRun' = fuzRun
     /\ \E i \in 1..Len(uploadedFiles) : uploadedFiles' = WithoutEntry(uploadedFiles, i)
  \/ /\ fuzRun.pc = "finish"
     /\ uploadedFiles' = fuzRun.results

\* C19: an entry of FileUploadZone's upload list is discarded exactly when
\* removeFile removes it, the other entries staying in order, or when a
\* later drop has been processed, after which the entries of the earlier
\* parse are no longer in the list.
C19_EntryLifecycle == [][UploadListStep]_vars

\* ---- C20

\* the progress values an update event may carry: -1 for an error, 0..100
EventProgress == {-1} \cup 0..100

ExpectedStatus(p) ==
  CASE p = -1 -> "error"
    [] p = 100 -> "completed"
    [] OTHER -> "in_progress"

ExpectedLevel(p) ==
  CASE p = -1 -> "error"
    [] p = 100 -> "success"
    [] OTHER -> "info"

\* every activity the first variant has logged that carries a progress of
\* -1 or 0..100 has the status and the level that go with it
ActivitiesMatchProgress ==
  \A i \in 1..Len(activities) :
    component = "RealTimeActivityLogger" /\ activities[i].carries /\ activities[i].progress \in EventProgress =>
      /\ activities[i].status = ExpectedStatus(activities[i].progress)
      /\ activities[i].level = ExpectedLevel(activities[i].progress)
      /\ activities[i].status = "error" <=> activities[i].progress = -1
      /\ activities[i].status = "completed" <=> activities[i].progress = 100
      /\ activities[i].status = "in_progress" <=> activities[i].progress \in 0..99

\* the effect run for an update event with such a progress puts an
\* activity with that progress, status and level at the head of the list
EffectLogsEvent ==
  /\ messageEffectDue /\ ~messageEffectDue'
  /\ lastMessage.type \in {"generation_update", "job_update"}
  /\ lastMessage.data.carries /\ lastMessage.data.progress \in EventProgress
  => /\ activities' # <<>>
     /\ activities'[1].carries /\ activities'[1].progress = lastMessage.data.progress
     /\ activities'[1].status = ExpectedStatus(lastMessage.data.progress)
     /\ activities'[1].level = ExpectedLevel(lastMessage.data.progress)

\* C20: for a generation_update or job_update event with progress p in
\* {-1} and 0..100, the activity RealTimeActivityLogger logs has status
\* 'error' iff p = -1, 'completed' iff p = 100, 'in_progress' iff
\* 0 <= p < 100, and level 'error', 'success', 'info' respectively.
C20_ProgressToStatus == []ActivitiesMatchProgress /\ [][EffectLogsEvent]_vars

\* an error event and a completion event have been logged
C20_Witness ==
  /\ component = "RealTimeActivityLogger"
  /\ Len(activities) >= 2
  /\ activities[1].carries /\ activities[1].progress = -1
  /\ activities[1].status = "error" /\ activities[1].level = "error"
  /\ activities[2].carries /\ activities[2].progress = 100
  /\ activities[2].status = "completed" /\ activities[2].level = "success"

\* ---- C21

UpdateTypes == {"generation_update", "job_update"}

IsUpdate(m) == m.type \in UpdateTypes

CarriesProgress(m) == m.type \in UpdateTypes /\ m.data.carries

\* the generation_update and job_update events delivered, oldest first
UpdatesDelivered == SelectSeq(delivered, IsUpdate)

IsEventEntry(a) == a # systemLog

\* the entries of the list that were built from events, newest first
EventEntries == SelectSeq(activities, IsEventEntry)

\* the entries the events delivered should have produced, newest first
RECURSIVE EntriesOf(_)
EntriesOf(ms) ==
  IF ms = <<>> THEN <<>>
  ELSE <<newActivity(ms[Len(ms)].data)>> \o EntriesOf(SubSeq(ms, 1, Len(ms) - 1))

\* no effect has still to run
LoggerAtRest == ~messageEffectDue /\ ~readyEffectDue

\* C21: RealTimeActivityLogger mirrors backend progress: once the effects
\* have run, currentProgress is the progress of the most recent update
\* event that carried one, the first activity is the entry built from the
\* most recent update event, and, while the list is below maxLogs, every
\* update event delivered has exactly one entry, in order of arrival.
C21_MirrorsProgress ==
  component = "RealTimeActivityLogger" /\ LoggerAtRest =>
    LET ups == UpdatesDelivered
        withProgress == SelectSeq(delivered, CarriesProgress)
    IN /\ withProgress # <<>> =>
            currentProgress = withProgress[Len(withProgress)].data.progress
       /\ ups # <<>> =>
            activities # <<>> /\ activities[1] = newActivity(ups[Len(ups)].data)
       /\ Len(activities) < maxLogs => EventEntries = EntriesOf(ups)

\* ---- C22

\* C22: in useSystemStatus at most one checkSystemStatus execution is in
\* flight at any time, whatever the order of the mount-time check, the
\* timer's ticks and the forceCheck calls.
C22_OneCheckInFlight == Len(checks) <= 1

\* ---- C23

\* a step that starts a check is the first run of the effect, a tick of
\* the timer or a forceCheck call
CheckStartsOnTrigger ==
  checksStarted' > checksStarted =>
    \/ ~mounted /\ mounted'
    \/ forcedChecks' > forcedChecks
    \/ interval.set /\ UNCHANGED <<statusEffectDue, interval>>

\* without a timer and without forceCheck one health check is made
OneCheckWithoutTriggers ==
  component = "useSystemStatus" /\ checkInterval = 0 /\ forcedChecks = 0 =>
    checksStarted <= 1

\* C23: in useSystemStatus a health check starts only because of mount, a
\* tick of the timer or a forceCheck call, never because a check has
\* completed: with checkInterval = 0 and no forceCheck exactly one health
\* check is ever made.
C23_StartsOnlyOnTrigger == [][CheckStartsOnTrigger]_vars /\ []OneCheckWithoutTriggers

\* ---- C24

\* C24: in data/DataReviewEditor the history cursor stays in range after
\* any sequence of cell edits, added, deleted and duplicated rows,
\* natural-language edits, undo and redo, also when the user acts while a
\* natural-language edit awaits its delay:
\* -1 <= currentHistoryIndex <= editHistory.length - 1.
C24_CursorInRange ==
  /\ -1 <= currentHistoryIndex
  /\ currentHistoryIndex <= Len(editHistory) - 1

\* ---- C25

\* the step is a manual cell edit
ManualCellEdit ==
  /\ editHistory' # editHistory
  /\ editHistory'[Len(editHistory')].action = "edit_cells"

\* the row is hidden by the search filter
HiddenBySearch(row) ==
  searchTerm # <<>> /\ ~RowMatches(row, toLowerCase(searchTerm))

\* a manual cell edit keeps the number of rows, and every hidden row
\* stays in data and is among the rows passed to onDataChange
CellEditKeepsRows ==
  ManualCellEdit =>
    /\ Len(gridData') = Len(gridData)
    /\ \A i \in 1..Len(gridData) :
         HiddenBySearch(gridData[i]) =>
           /\ gridData[i] \in Range(gridData')
           /\ rest(gridData[i]) \in Range(dataChanged')

\* C25: in data/DataReviewEditor a manual cell edit (handleRowsChange)
\* changes only the edited row: the number of rows of data is unchanged
\* and every row hidden by the current searchTerm filter is still in data,
\* and in the rows passed to onDataChange, after the edit.
C25_CellEditKeepsRows == [][CellEditKeepsRows]_vars

\* ---- C26

\* C26: in EnhancedDataGenerator, once generateFromFile or
\* generateFromDescription has been started, isGenerating is false again
\* when the generation API call has settled, on success as well as on
\* failure, whether or not a 'completed' message arrives: with no call in
\* flight the page is not generating.
C26_GeneratingEnds == generations = <<>> => ~generating

\* ---- C27

\* C27: in EnhancedDataGenerator some panel can be displayed in every
\* reachable state: currentStep = 'edit' implies generatedData is not
\* null, and currentStep in {upload, preview} implies generationMode =
\* 'file', whatever the order of 'completed' messages, API responses, mode
\* switches and Generate New.
C27_PanelDisplayable ==
  /\ currentStep = "edit" => generatedData # "null"
  /\ currentStep \in {"upload", "preview"} => generationMode = "file"

\* ------------------------------------------------------------- C28

\* a step of handleCellSave
IsCellSave == cellSaves' # cellSaves

\* the row objects other than ref are as they were
OnlyWritten(ref) ==
  /\ Len(rowObjects') = Len(rowObjects)
  /\ \A r \in 1..Len(rowObjects) : r # ref => rowObjects'[r] = rowObjects[r]

CellSaveWritesSelected ==
  IsCellSave =>
    /\ editingRow + 1 \in 1..Len(localData)
    /\ localData[editingRow + 1] = selectedRef
    /\ OnlyWritten(selectedRef)
    /\ rowObjects'[selectedRef] = SetProp(rowObjects[selectedRef], editingField, Str(editValue))

\* C28: handleCellSave writes editValue into exactly the field of the row
\* that the preceding handleCellEdit selected, even when handleRowDelete,
\* handleAddRow or resetData ran in between; it never writes into another
\* row nor at an index outside localData.
C28_SaveWritesSelectedCell == [][CellSaveWritesSelected]_vars

\* ------------------------------------------------------------- C29

\* the list is what its length allows of the entries added, newest first
KeepsMostRecent == Len(activities) <= maxLogs /\ activities = SliceTo(logged, maxLogs)

\* C29: in both RealTimeActivityLogger variants, after any sequence of
\* incoming events and mock timer ticks, the activity list never holds
\* more than maxLogs entries (for maxLogs >= 1), and the entries it keeps
\* are the most recent ones, newest first.
C29_KeepsMostRecent ==
  component \in {"RealTimeActivityLogger", LoggerV2} /\ maxLogs >= 1 => KeepsMostRecent

\* entries have been dropped after a message event and a mock tick
C29_Witness ==
  /\ component = LoggerV2
  /\ Len(logged) > maxLogs
  /\ Len(activities) > 1
  /\ \E i \in 1..Len(mockActivities) : activities[1] = mockActivities[i]
  /\ \E e \in WindowEvents : activities[2] = newActivityLog(e)

\* ------------------------------------------------------------- C30

\* a healthy status goes with an active model
HealthyHasModel ==
  modelHealthAtom = "healthy" => modelConfigAtom # NoModel /\ modelConfigAtom.isActive

\* no configure or test operation in flight: both flags are false
FlagsClearAtRest == ops = <<>> => ~isConfiguringModelAtom /\ ~isTestingModelAtom

\* C30: under any interleaving of configureModelAtom,
\* testModelConnectionAtom and removeModelAtom, a 'healthy'
\* modelHealthAtom implies that modelConfigAtom holds a non-null active
\* model, and once no configure or test operation is in flight,
\* isConfiguringModelAtom and isTestingModelAtom are both false.
C30_HealthyHasModel == HealthyHasModel /\ FlagsClearAtRest

====
